---- MODULE Spec2Model ----
(***************************************************************************)
(* A model of src/main.py (CustomerEmailProcessor): spreadsheet ingestion, *)
(* per-customer aggregation, rendering helpers, preferences and sinks.     *)
(*                                                                         *)
(* Python strings are sequences of one-character strings, so that strip,   *)
(* split, replace, lower, title and substring tests are computed as the    *)
(* code computes them.  Ordered dicts are sequences of <<key, value>>      *)
(* pairs in insertion order.                                               *)
(***************************************************************************)
EXTENDS Integers, Sequences, FiniteSets, TLC

VARIABLES
    pc,             \* position of the operation under study
    data_sheet,     \* the DataFrame handed to _process_customer_data
    customer_data,  \* self.customer_data (ordered dict: name -> list of row dicts)
    prefs,          \* self._prefs (ordered dict: role key -> column name)
    prefs_file,     \* the .email_prefs.json beside the script
    inputs_read,    \* number of input() calls made so far
    file_writes,    \* number of attempts to write the preference file
    result,         \* return value of the operation under study
    raised,         \* exception that left the operation ("none" when it returned)
    invoices,       \* one customer's row dicts, as handed to the renderer
    computed,       \* the renderer functions that have returned
    total_amount,   \* return value of _calculate_total_amount, in cents
    customer_table, \* the cells of the table _create_customer_table renders
    invoice_string, \* return value of _build_invoice_string
    addr_str,       \* the address text handed to _parse_addresses
    cwd_prefs,      \* a legacy .email_prefs.json in the current directory
    choose_columns, \* the column list handed to _choose_column
    choose_key,     \* the role key handed to _choose_column
    last_save,      \* history: per role key, the last _save_pref call and
                    \* whether a processor was constructed after it
    file_exists,    \* whether the workbook path exists
    file_suffix,    \* file_path.suffix of the workbook
    os_name,        \* os.name
    pyxlsb_importable, \* whether "import pyxlsb" succeeds
    workbook_xml,   \* what the manual parse of xl/workbook.xml makes of the file
    strategy_pos,   \* position of _list_sheet_names_robust in its cascade
    attempted,      \* history: the strategies tried, each with its outcome
    sink,           \* the delivery sink _create_emails dispatched to
    email_addresses, \* the address book handed to the sink
    sink_pos,       \* position of the sink's loop in customer_data
    delivery_log,   \* history: the customers reached, each with its outcome
    answers,        \* history: per customer reached, whether an address was asked
                    \* for and the line typed
    given_path,     \* the path handed to _ensure_local_copy
    cwd_dir,        \* the current directory, against which a relative path resolves
    file_size,      \* st_size of the workbook
    copy_ok,        \* whether copy2 to the temporary directory succeeds
    choose_line,    \* history: the last line input() gave to _choose_column
    sheet_names,    \* the sheet names the resolver listed
    data_sheet_name,   \* the name of the data sheet, <<>> while unset
    emails_sheet_name, \* the name of the emails sheet, <<>> while None
    emails_sheet,   \* the emails frame: "empty", "frame", or "none" for None
    run_log,        \* history: the stages that completed and the diagnostics printed
    raw_data,       \* the raw rows ws.iter_rows gives the manual reader
    last_write,     \* history: key, value and outcome of the last _save_pref call
    runs_done,      \* history: how often _process_customer_data has returned
    first_data,     \* history: customer_data as the first run left it
    export_text,    \* invoice_list_text of _export_to_xlsxwriter for one customer
    book_rows,      \* the rows of the emails sheet: customer cell, email cell
    out_files       \* history: the files the file sink wrote, each with its customer

aggVars == <<data_sheet, customer_data>>
prefVars == <<prefs, prefs_file, inputs_read, file_writes>>
renderVars == <<invoices, computed, total_amount, customer_table, invoice_string>>

addrVars == <<addr_str>>
chooseVars == <<cwd_prefs, choose_columns, choose_key, last_save>>
sheetVars == <<file_exists, file_suffix, os_name, pyxlsb_importable, workbook_xml,
               strategy_pos, attempted>>
sinkVars == <<sink, email_addresses, sink_pos, delivery_log, answers>>

localVars == <<given_path, cwd_dir, file_size, copy_ok>>
runVars == <<sheet_names, data_sheet_name, emails_sheet_name, emails_sheet, run_log>>
againVars == <<runs_done, first_data>>
lateVars == <<raw_data, last_write, againVars, export_text, book_rows, out_files>>
extraVars == <<localVars, choose_line, runVars, lateVars>>

vars == <<pc, result, raised, aggVars, prefVars, renderVars, addrVars, chooseVars,
          sheetVars, sinkVars, extraVars>>

----------------------------------------------------------------------------
(* Bounds of the model *)

MaxRows == 3
MaxPrompts == 2
MaxAmountRows == 2
MaxInvoiceRows == 3
MaxAddrLen == 5
MaxCustomers == 2
MaxRawRows == 2
MaxSaves == 3
MaxBookRows == 2

----------------------------------------------------------------------------
(* Python string and value helpers *)

UpperChars == <<"A","B","C","D","E","F","G","H","I","J","K","L","M",
                "N","O","P","Q","R","S","T","U","V","W","X","Y","Z">>
LowerChars == <<"a","b","c","d","e","f","g","h","i","j","k","l","m",
                "n","o","p","q","r","s","t","u","v","w","x","y","z">>
DigitChars == <<"0","1","2","3","4","5","6","7","8","9">>

IndexIn(c, seq) == IF \E i \in DOMAIN seq : seq[i] = c
                   THEN CHOOSE i \in DOMAIN seq : seq[i] = c
                   ELSE 0

IsUpper(c) == IndexIn(c, UpperChars) > 0
IsLower(c) == IndexIn(c, LowerChars) > 0
IsDigit(c) == IndexIn(c, DigitChars) > 0
IsSpace(c) == c = " "

LowerChar(c) == IF IsUpper(c) THEN LowerChars[IndexIn(c, UpperChars)] ELSE c
UpperChar(c) == IF IsLower(c) THEN UpperChars[IndexIn(c, LowerChars)] ELSE c

\* str.lower()
Lower(s) == [i \in DOMAIN s |-> LowerChar(s[i])]

RECURSIVE LStrip(_)
LStrip(s) == IF s = <<>> THEN <<>>
             ELSE IF IsSpace(Head(s)) THEN LStrip(Tail(s)) ELSE s

RECURSIVE RStrip(_)
RStrip(s) == IF s = <<>> THEN <<>>
             ELSE IF IsSpace(s[Len(s)]) THEN RStrip(SubSeq(s, 1, Len(s) - 1)) ELSE s

\* str.strip()
Strip(s) == RStrip(LStrip(s))

\* str.title(): a cased character is upper-cased when it follows an uncased one
\* and lower-cased otherwise.
RECURSIVE TitleFrom(_, _)
TitleFrom(s, prevCased) ==
    IF s = <<>> THEN <<>>
    ELSE LET c == Head(s) IN
         IF IsUpper(c) \/ IsLower(c)
         THEN <<IF prevCased THEN LowerChar(c) ELSE UpperChar(c)>> \o TitleFrom(Tail(s), TRUE)
         ELSE <<c>> \o TitleFrom(Tail(s), FALSE)

Title(s) == TitleFrom(s, FALSE)

\* `sub in s`
Contains(sub, s) ==
    \E i \in 1..(Len(s) - Len(sub) + 1) : SubSeq(s, i, i + Len(sub) - 1) = sub

\* str(n) of a non-negative int
RECURSIVE DigitsOf(_)
DigitsOf(n) == IF n < 10 THEN <<DigitChars[n + 1]>>
               ELSE DigitsOf(n \div 10) \o <<DigitChars[(n % 10) + 1]>>

\* Cell values: a str, a float NaN, None, or a non-negative int.
StrCell(s) == [t |-> "str", s |-> s, n |-> 0]
NaNCell == [t |-> "nan", s |-> <<>>, n |-> 0]
NoneCell == [t |-> "none", s |-> <<>>, n |-> 0]
NumCell(n) == [t |-> "num", s |-> <<>>, n |-> n]

\* pd.isna(value)
IsNa(cell) == cell.t \in {"nan", "none"}

\* str(value)
PyStr(cell) ==
    CASE cell.t = "str" -> cell.s
      [] cell.t = "nan" -> <<"n","a","n">>
      [] cell.t = "none" -> <<"N","o","n","e">>
      [] cell.t = "num" -> DigitsOf(cell.n)

\* bool(value)
Truthy(cell) ==
    CASE cell.t = "str" -> cell.s # <<>>
      [] cell.t = "nan" -> TRUE
      [] cell.t = "none" -> FALSE
      [] cell.t = "num" -> cell.n # 0

----------------------------------------------------------------------------
(* Ordered dicts *)

DictKeys(d) == [i \in DOMAIN d |-> d[i][1]]
DictHas(d, k) == \E i \in DOMAIN d : d[i][1] = k
DictIndex(d, k) == CHOOSE i \in DOMAIN d : d[i][1] = k
DictGet(d, k, default) == IF DictHas(d, k) THEN d[DictIndex(d, k)][2] ELSE default
DictSet(d, k, v) == IF DictHas(d, k)
                    THEN [d EXCEPT ![DictIndex(d, k)] = <<k, v>>]
                    ELSE Append(d, <<k, v>>)

HasDuplicates(seq) == \E i, j \in DOMAIN seq : i < j /\ seq[i] = seq[j]

----------------------------------------------------------------------------
(* Preferences: _load_prefs, _save_pref, _get_pref *)

NoPref == [t |-> "none", s |-> <<>>, n |-> 0]

\* json.dump(self._prefs, f): the members of the object in insertion order
JsonDump(d) == [i \in DOMAIN d |-> [key |-> d[i][1], value |-> d[i][2]]]

\* json.load(f) of an object: members are inserted in order, a repeated key
\* keeps its first position and takes the last value
RECURSIVE JsonLoadFrom(_, _)
JsonLoadFrom(members, d) ==
    IF members = <<>> THEN d
    ELSE JsonLoadFrom(Tail(members), DictSet(d, Head(members).key, Head(members).value))

JsonLoad(members) == JsonLoadFrom(members, <<>>)

AbsentFile == [state |-> "absent", body |-> <<>>]
CorruptFile == [state |-> "corrupt", body |-> <<>>]
JsonFile(d) == [state |-> "json", body |-> JsonDump(d)]

\* _load_prefs: the script-local file when it exists and holds an object,
\* else the file of the current directory (legacy), else {}
LoadPrefs(file, cwd_file) ==
    IF file.state = "json" THEN JsonLoad(file.body)
    ELSE IF cwd_file.state = "json" THEN JsonLoad(cwd_file.body)
    ELSE <<>>

\* _get_pref(key): the stored value, None when absent
GetPref(d, key) == DictGet(d, key, NoPref)

\* _save_pref, in memory: self._prefs[key] = value
SavePrefMemoryAlone(d, key, value) == << <<key, StrCell(value)>> >>

SavePrefMemory(d, key, value) == DictSet(d, key, StrCell(value))

\* _save_pref, on disk: the file holds the whole store when the write succeeds
\* and is left as it was when open() fails
SavePrefFile(file, d, writeOk) == IF writeOk THEN JsonFile(d) ELSE file

----------------------------------------------------------------------------
(* Column Selector: _choose_column *)

\* int(choice): optional sign, then decimal digits
RECURSIVE DigitsValue(_, _)
DigitsValue(s, acc) ==
    IF s = <<>> THEN acc
    ELSE DigitsValue(Tail(s), acc * 10 + (IndexIn(Head(s), DigitChars) - 1))

AllDigits(s) == s # <<>> /\ \A i \in DOMAIN s : IsDigit(s[i])

ParseInt(s) ==
    LET body == IF s # <<>> /\ Head(s) \in {"+", "-"} THEN Tail(s) ELSE s
        sign == IF s # <<>> /\ Head(s) = "-" THEN -1 ELSE 1
    IN IF AllDigits(body) THEN [ok |-> TRUE, n |-> sign * DigitsValue(body, 0)]
       ELSE [ok |-> FALSE, n |-> 0]

\* the saved preference is applied when it is truthy and names a listed column
SavedChoiceApplies(columns, d, pref_key) ==
    LET saved == GetPref(d, pref_key)
    IN Truthy(saved) /\ \E i \in DOMAIN columns : columns[i] = PyStr(saved)

\* one pass of the prompt loop: the chosen column, or "again" to re-prompt
NoChoice == [again |-> TRUE, chosen |-> <<>>]

PromptChoiceWithSkip(columns, line) ==
    LET choice == Strip(line)
        num == ParseInt(choice)
    IN IF choice = <<>> THEN NoChoice
       ELSE IF ~num.ok THEN NoChoice
       ELSE IF 1 <= num.n /\ num.n <= Len(columns)
            THEN [again |-> FALSE, chosen |-> columns[num.n]]
       ELSE IF num.n = Len(columns) + 1 THEN [again |-> FALSE, chosen |-> <<"N","o","n","e">>]
       ELSE NoChoice

PromptChoiceZeroBased(columns, line) ==
    LET choice == Strip(line)
        num == ParseInt(choice)
    IN IF choice = <<>> THEN NoChoice
       ELSE IF ~num.ok THEN NoChoice
       ELSE IF 0 <= num.n /\ num.n < Len(columns)
            THEN [again |-> FALSE, chosen |-> columns[num.n + 1]]
            ELSE NoChoice

PromptChoice(columns, line) ==
    LET choice == Strip(line)
        num == ParseInt(choice)
    IN IF choice = <<>> THEN NoChoice
       ELSE IF ~num.ok THEN NoChoice
       ELSE IF 1 <= num.n /\ num.n <= Len(columns)
            THEN [again |-> FALSE, chosen |-> columns[num.n]]
            ELSE NoChoice

InputLines ==
    { <<>>, <<" ">>, <<"x">>, <<"0">>, <<"1">>, <<"2">>, <<" ","2"," ">>,
      <<"3">>, <<"-","1">>, <<"1","x">> }

----------------------------------------------------------------------------
(* Customer Aggregator: _process_customer_data *)

\* data_sheet.columns = [str(col).strip().title() for col in data_sheet.columns]
NormalizeColumns(columns) == [i \in DOMAIN columns |-> Title(Strip(PyStr(columns[i])))]

ColumnIndex(columns, col) == CHOOSE i \in DOMAIN columns : columns[i] = col

\* pd.isna(value) -> "" while a row is copied into its dict
CleanValue(cell) == IF IsNa(cell) THEN StrCell(<<>>) ELSE cell

\* row_data: column -> value, in column order
RowData(columns, row) == [i \in DOMAIN columns |-> <<columns[i], CleanValue(row[i])>>]

\* str(row.get(customer_col, '')).strip()
CustomerName(columns, row, customer_col) ==
    Strip(PyStr(row[ColumnIndex(columns, customer_col)]))

\* the filter of line 447; pd.isna of a str is False
RowSkipped(name) == name = <<>> \/ FALSE \/ name = <<"n","a","n">>

\* self.customer_data[customer_name].append(row_data) on a defaultdict(list)
DefaultDictAppendFront(cd, name, row_data) ==
    IF DictHas(cd, name)
    THEN [cd EXCEPT ![DictIndex(cd, name)] = <<name, <<row_data>> \o cd[DictIndex(cd, name)][2]>>]
    ELSE <<(<<name, <<row_data>>>>)>> \o cd

DefaultDictAppendAfterTouch(cd, name, row_data) ==
    IF DictHas(cd, name)
    THEN [cd EXCEPT ![DictIndex(cd, name)] = <<name, Append(cd[DictIndex(cd, name)][2], row_data)>>]
    ELSE Append(cd, <<name, <<>>>>)

DefaultDictAppend(cd, name, row_data) ==
    IF DictHas(cd, name)
    THEN [cd EXCEPT ![DictIndex(cd, name)] = <<name, Append(cd[DictIndex(cd, name)][2], row_data)>>]
    ELSE Append(cd, <<name, <<row_data>>>>)

\* the loop over data_sheet.iterrows()
RECURSIVE GroupRows(_, _, _, _)
GroupRows(cd, columns, customer_col, rows) ==
    IF rows = <<>> THEN cd
    ELSE LET name == CustomerName(columns, Head(rows), customer_col)
         IN IF RowSkipped(name)
            THEN GroupRows(cd, columns, customer_col, Tail(rows))
            ELSE GroupRows(DefaultDictAppend(cd, name, RowData(columns, Head(rows))),
                           columns, customer_col, Tail(rows))

\* With a repeated column name row[col] is a Series and `if pd.isna(value)`
\* raises ValueError on the first row that is not skipped; a repeated customer
\* column makes every row's name the text of a Series, which is never skipped.
GroupRaises(columns, customer_col, rows) ==
    /\ HasDuplicates(columns)
    /\ \/ /\ rows # <<>>
          /\ \E i, j \in DOMAIN columns : i < j /\ columns[i] = customer_col /\ columns[j] = customer_col
       \/ \E r \in DOMAIN rows :
            LET i == ColumnIndex(columns, customer_col)
            IN ~RowSkipped(Strip(PyStr(rows[r][i])))

----------------------------------------------------------------------------
(* Aggregation run: a fresh processor runs _process_customer_data once *)

MainCustomerKey == "main_customer_column"

S_Customer == <<"C","u","s","t","o","m","e","r">>

\* raw header rows of the data sheet, as read from the workbook
HeaderChoices ==
    { << StrCell(<<" ","c","u","s","t","o","m","e","r">>), StrCell(<<"i","n","v">>) >>,
      << StrCell(<<"n","a","m","e">>), StrCell(<<"N","A","M","E"," ">>) >> }

\* cells of the first column and of the second column
NameCells ==
    { StrCell(<<>>), StrCell(<<" ">>), StrCell(<<"n","a","n">>), StrCell(<<"a">>),
      StrCell(<<" ","a"," ">>), StrCell(<<"b">>), NaNCell, NoneCell }
OtherCells == { StrCell(<<"7">>) }

RowChoices == { <<a, b>> : a \in NameCells, b \in OtherCells }

Tables ==
    { [columns |-> h, rows |-> r] :
        h \in HeaderChoices,
        r \in UNION { [1..n -> RowChoices] : n \in 0..MaxRows } }

\* preference files a run may find beside the script
StartFiles ==
    { AbsentFile,
      JsonFile(<< <<MainCustomerKey, StrCell(S_Customer)>> >>) }

\* the parts of the state an operation under study does not touch
AggIdle ==
    /\ data_sheet = [columns |-> <<>>, rows |-> <<>>]
    /\ customer_data = <<>>

PrefIdle ==
    /\ prefs = <<>>
    /\ prefs_file = AbsentFile
    /\ inputs_read = 0
    /\ file_writes = 0

RenderIdle ==
    /\ invoices = <<>>
    /\ computed = {}
    /\ total_amount = 0
    /\ customer_table = <<>>
    /\ invoice_string = <<>>

AddrIdle == addr_str = <<>>

ChooseIdle ==
    /\ cwd_prefs = AbsentFile
    /\ choose_columns = <<>>
    /\ choose_key = ""
    /\ last_save = <<>>

SheetIdle ==
    /\ file_exists = TRUE
    /\ file_suffix = <<>>
    /\ os_name = "posix"
    /\ pyxlsb_importable = FALSE
    /\ workbook_xml = <<>>
    /\ strategy_pos = 0
    /\ attempted = <<>>

SinkIdle ==
    /\ sink = ""
    /\ email_addresses = <<>>
    /\ sink_pos = 0
    /\ delivery_log = <<>>
    /\ answers = <<>>

LocalIdle ==
    /\ given_path = <<>>
    /\ cwd_dir = <<>>
    /\ file_size = 0
    /\ copy_ok = TRUE

RunIdle ==
    /\ sheet_names = <<>>
    /\ data_sheet_name = <<>>
    /\ emails_sheet_name = <<>>
    /\ emails_sheet = "empty"
    /\ run_log = <<>>

AgainIdle ==
    /\ runs_done = 0
    /\ first_data = <<>>

NoWrite == [key |-> "", value |-> <<>>, outcome |-> ""]

LateIdle ==
    /\ raw_data = <<>>
    /\ last_write = NoWrite
    /\ AgainIdle
    /\ export_text = <<>>
    /\ book_rows = <<>>
    /\ out_files = <<>>

ExtraIdle ==
    /\ LocalIdle
    /\ choose_line = <<>>
    /\ RunIdle
    /\ LateIdle

AggFrame ==
    UNCHANGED <<renderVars, addrVars, chooseVars, sheetVars, sinkVars, extraVars>>

InitAgg ==
    /\ pc = "start"
    /\ data_sheet \in Tables
    /\ customer_data = <<>>
    /\ prefs_file \in StartFiles
    /\ prefs = LoadPrefs(prefs_file, AbsentFile)
    /\ inputs_read = 0
    /\ file_writes = 0
    /\ result = <<>>
    /\ raised = "none"
    /\ RenderIdle
    /\ AddrIdle
    /\ ChooseIdle
    /\ SheetIdle
    /\ SinkIdle
    /\ ExtraIdle

\* lines 442-459 once customer_col is known
GroupInto(columns, customer_col) ==
    IF customer_col = <<>>
    THEN /\ customer_data' = customer_data
         /\ raised' = "none"
    ELSE IF GroupRaises(columns, customer_col, data_sheet.rows)
    THEN /\ customer_data' = customer_data
         /\ raised' = "ValueError"
    ELSE /\ customer_data' = GroupRows(customer_data, columns, customer_col, data_sheet.rows)
         /\ raised' = "none"

\* _process_customer_data up to the first input(): the headers are normalised,
\* and a saved choice that applies is used without prompting
ProcessBegin ==
    /\ pc = "start"
    /\ LET columns == NormalizeColumns(data_sheet.columns)
       IN /\ data_sheet' = [data_sheet EXCEPT !.columns = columns]
          /\ IF SavedChoiceApplies(columns, prefs, MainCustomerKey)
             THEN /\ result' = PyStr(GetPref(prefs, MainCustomerKey))
                  /\ GroupInto(columns, PyStr(GetPref(prefs, MainCustomerKey)))
                  /\ pc' = "done"
             ELSE /\ pc' = "prompt"
                  /\ UNCHANGED <<result, customer_data, raised>>
    /\ UNCHANGED <<prefs, prefs_file, inputs_read, file_writes>>
    /\ AggFrame

\* one input() of the prompt loop that is rejected: the loop prompts again
ProcessPromptAgain ==
    /\ pc = "prompt"
    /\ inputs_read < MaxPrompts
    /\ \E line \in InputLines :
         /\ PromptChoice(data_sheet.columns, line).again
         /\ inputs_read' = inputs_read + 1
    /\ UNCHANGED <<pc, data_sheet, customer_data, prefs, prefs_file, file_writes, result, raised>>
    /\ AggFrame

\* one input() that is accepted: the choice is saved and the rows are grouped
ProcessPromptChosen ==
    /\ pc = "prompt"
    /\ \E line \in InputLines, writeOk \in BOOLEAN :
         LET c == PromptChoice(data_sheet.columns, line)
         IN /\ ~c.again
            /\ inputs_read' = inputs_read + 1
            /\ prefs' = SavePrefMemory(prefs, MainCustomerKey, c.chosen)
            /\ prefs_file' = SavePrefFile(prefs_file, prefs', writeOk)
            /\ file_writes' = file_writes + 1
            /\ result' = c.chosen
            /\ GroupInto(data_sheet.columns, c.chosen)
            /\ pc' = "done"
    /\ UNCHANGED data_sheet
    /\ AggFrame

NextAgg == ProcessBegin \/ ProcessPromptAgain \/ ProcessPromptChosen

SpecAgg == InitAgg /\ [][NextAgg]_vars

----------------------------------------------------------------------------
(* Claims about aggregation *)

\* the stripped text of row r's customer cell
SourceName(r) ==
    Strip(PyStr(data_sheet.rows[r][ColumnIndex(data_sheet.columns, result)]))

\* the rows of the source, in source order, whose name is k
RECURSIVE SourceRowsOf(_, _)
SourceRowsOf(k, r) ==
    IF r > Len(data_sheet.rows) THEN <<>>
    ELSE IF SourceName(r) = k
         THEN <<RowData(data_sheet.columns, data_sheet.rows[r])>> \o SourceRowsOf(k, r + 1)
         ELSE SourceRowsOf(k, r + 1)

FirstRowOf(k) ==
    CHOOSE r \in DOMAIN data_sheet.rows :
        SourceName(r) = k /\ \A q \in 1..(r - 1) : SourceName(q) # k

AggReturned == pc = "done" /\ raised = "none" /\ result # <<>>

\* C1: after _process_customer_data on a fresh processor, the keys of
\* customer_data are the names of the rows that were not skipped, in the order
\* of each name's first row, and each key's list is the subsequence of the
\* source rows with that name, in source order.
C1_GroupingStable ==
    AggReturned =>
        /\ \A r \in DOMAIN data_sheet.rows :
             SourceName(r) \notin {<<>>, <<"n","a","n">>}
                => DictHas(customer_data, SourceName(r))
        /\ \A i \in DOMAIN customer_data :
             /\ \E r \in DOMAIN data_sheet.rows : SourceName(r) = customer_data[i][1]
             /\ customer_data[i][2] = SourceRowsOf(customer_data[i][1], 1)
        /\ \A i, j \in DOMAIN customer_data :
             i < j => FirstRowOf(customer_data[i][1]) < FirstRowOf(customer_data[j][1])

\* two customers, the first of them with two rows that another customer's row separates
C1_Witness ==
    /\ AggReturned
    /\ Len(customer_data) = 2
    /\ Len(customer_data[1][2]) = 2
    /\ Len(data_sheet.rows) = 3
    /\ SourceName(1) = SourceName(3)
    /\ SourceName(1) = <<"a">>
    /\ SourceName(2) = <<"b">>
    /\ data_sheet.rows[1] # data_sheet.rows[3]

\* C2: after _process_customer_data no key of customer_data is empty,
\* whitespace-only or "nan", and no row whose customer cell is empty,
\* whitespace-only, missing (None/NaN) or "nan" is in any customer's list.
CellIsBlankName(cell) ==
    \/ IsNa(cell)
    \/ cell.t = "str" /\ Strip(cell.s) \in {<<>>, <<"n","a","n">>}

C2_NoBlankCustomers ==
    AggReturned =>
        /\ \A i \in DOMAIN customer_data :
             Strip(customer_data[i][1]) \notin {<<>>, <<"n","a","n">>}
        /\ \A r \in DOMAIN data_sheet.rows :
             CellIsBlankName(data_sheet.rows[r][ColumnIndex(data_sheet.columns, result)])
                => ~DictHas(customer_data, SourceName(r))


\* C16: in every reachable state, every key of customer_data maps to a
\* non-empty list of rows (a key exists only because a row was appended).
C16_NoEmptyCustomer ==
    \A i \in DOMAIN customer_data : customer_data[i][2] # <<>>

\* aggregation has filled customer_data from a sheet with a skipped row
C16_Witness ==
    /\ AggReturned
    /\ customer_data # <<>>
    /\ Len(data_sheet.rows) = 2
    /\ Len(customer_data) = 1
    /\ Len(customer_data[1][2]) = 1

----------------------------------------------------------------------------
(* Document Renderer: amounts *)

\* value.replace('$', '').replace(',', '')
RemoveCurrencyMarks(s) == LET Kept(c) == c \notin {"$", ","} IN SelectSeq(s, Kept)

\* float(text) of a decimal literal: surrounding whitespace, an optional sign,
\* digits with an optional point.  The value is in cents; the amounts of the
\* model carry at most two fractional digits (exponents, inf, nan and longer
\* fractions are not among them), and sums are exact.
PointAt(s) == IF \E i \in DOMAIN s : s[i] = "."
              THEN CHOOSE i \in DOMAIN s : s[i] = "." /\ \A j \in 1..(i - 1) : s[j] # "."
              ELSE Len(s) + 1

ParseFloat(text) ==
    LET s == Strip(text)
        signed == s # <<>> /\ Head(s) \in {"+", "-"}
        body == IF signed THEN Tail(s) ELSE s
        sign == IF signed /\ Head(s) = "-" THEN -1 ELSE 1
        p == PointAt(body)
        whole == SubSeq(body, 1, p - 1)
        frac == SubSeq(body, p + 1, Len(body))
        digitsOnly == /\ \A i \in DOMAIN whole : IsDigit(whole[i])
                      /\ \A i \in DOMAIN frac : IsDigit(frac[i])
        cents == CASE Len(frac) = 0 -> 0
                   [] Len(frac) = 1 -> 10 * DigitsValue(frac, 0)
                   [] OTHER -> DigitsValue(SubSeq(frac, 1, 2), 0)
    IN IF digitsOnly /\ (whole # <<>> \/ frac # <<>>)
       THEN [ok |-> TRUE, v |-> sign * (100 * DigitsValue(whole, 0) + cents)]
       ELSE [ok |-> FALSE, v |-> 0]

\* the ',' grouping of format spec ',.2f'
RECURSIVE GroupThousands(_)
GroupThousands(digits) ==
    IF Len(digits) <= 3 THEN digits
    ELSE GroupThousands(SubSeq(digits, 1, Len(digits) - 3))
            \o <<",">> \o SubSeq(digits, Len(digits) - 2, Len(digits))

\* f"${numeric_value:,.2f}"
FormatMoney(cents) ==
    LET a == IF cents < 0 THEN -cents ELSE cents
    IN <<"$">> \o (IF cents < 0 THEN <<"-">> ELSE <<>>)
         \o GroupThousands(DigitsOf(a \div 100))
         \o <<".", DigitChars[((a % 100) \div 10) + 1], DigitChars[(a % 10) + 1]>>

S_balance == <<"b","a","l","a","n","c","e">>
S_amount == <<"a","m","o","u","n","t">>
S_total == <<"t","o","t","a","l">>
S_due == <<"d","u","e">>
S_price == <<"p","r","i","c","e">>

\* line 680
AmountKeywords == {S_balance, S_amount, S_total, S_due}
\* line 656
TableNumKeys == {S_amount, S_balance, S_total, S_price, S_due}

\* any(keyword in col.lower() for keyword in keywords)
NameHas(col, keywords) == \E k \in keywords : Contains(k, Lower(col))

\* float(str(value).replace('$', '').replace(',', '')), NaN counted as 0
AmountOf(value) ==
    ParseFloat(RemoveCurrencyMarks(PyStr(IF IsNa(value) THEN NumCell(0) ELSE value)))

\* the inner loop of _calculate_total_amount from key i on: `break` follows a
\* parse that succeeds, `pass` lets the loop go on to the next key
RECURSIVE RowAmountStopAtFirstMatch(_, _)
RowAmountStopAtFirstMatch(invoice, i) ==
    IF i > Len(invoice) THEN 0
    ELSE IF NameHas(invoice[i][1], AmountKeywords)
         THEN IF AmountOf(invoice[i][2]).ok THEN AmountOf(invoice[i][2]).v ELSE 0
         ELSE RowAmountStopAtFirstMatch(invoice, i + 1)

RECURSIVE RowAmount(_, _)
RowAmount(invoice, i) ==
    IF i > Len(invoice) THEN 0
    ELSE IF NameHas(invoice[i][1], AmountKeywords) /\ AmountOf(invoice[i][2]).ok
         THEN AmountOf(invoice[i][2]).v
         ELSE RowAmount(invoice, i + 1)

\* _calculate_total_amount
RECURSIVE CalculateTotalAmount(_)
CalculateTotalAmount(invs) ==
    IF invs = <<>> THEN 0
    ELSE RowAmount(Head(invs), 1) + CalculateTotalAmount(Tail(invs))

\* one <td> of _create_customer_table
TableCellShownRaw(col, value) ==
    [text |-> IF IsNa(value) THEN <<>> ELSE PyStr(value),
     right |-> NameHas(col, TableNumKeys)]

TableCell(col, value) ==
    LET text == IF IsNa(value) THEN <<>> ELSE PyStr(value)
        clean == Strip(RemoveCurrencyMarks(text))
    IN IF NameHas(col, TableNumKeys)
       THEN [text |-> IF Strip(text) # <<>> /\ clean # <<>> /\ ParseFloat(clean).ok
                      THEN FormatMoney(ParseFloat(clean).v)
                      ELSE text,
             right |-> TRUE]
       ELSE [text |-> text, right |-> FALSE]

\* _create_customer_table: the header cells and the cells of each row; no
\* table at all for an empty list
CreateCustomerTable(invs) ==
    IF invs = <<>> THEN [none |-> TRUE, headers |-> <<>>, rows |-> <<>>]
    ELSE LET columns == DictKeys(invs[1])
         IN [none |-> FALSE,
             headers |-> columns,
             rows |-> [r \in DOMAIN invs |->
                         [c \in DOMAIN columns |->
                            TableCell(columns[c],
                                      DictGet(invs[r], columns[c], StrCell(<<>>)))]]]

----------------------------------------------------------------------------
(* Renderer run on amounts *)

S_1234_56 == <<"$","1",",","2","3","4",".","5","6">>

AmountColumnChoices ==
    { << <<"A","m","o","u","n","t">>, <<"T","o","t","a","l">> >>,
      << <<"P","r","i","c","e">>, <<"B","a","l","a","n","c","e">> >> }

FirstAmountCells ==
    { NumCell(10), StrCell(S_1234_56), StrCell(<<>>), StrCell(<<"x">>),
      StrCell(<<" ","5",".","5"," ">>) }
SecondAmountCells == { NumCell(20), StrCell(<<>>), StrCell(S_1234_56) }

AmountInvoices(n) ==
    { [r \in 1..n |-> << <<cols[1], rows[r][1]>>, <<cols[2], rows[r][2]>> >>] :
        cols \in AmountColumnChoices,
        rows \in [1..n -> FirstAmountCells \X SecondAmountCells] }

AmountInvoiceLists(max) == UNION { AmountInvoices(n) : n \in 0..max }

AmountFrame ==
    UNCHANGED <<pc, result, raised, aggVars, prefVars, addrVars, chooseVars,
               sheetVars, sinkVars, extraVars, invoice_string>>

InitAmount ==
    /\ pc = "render"
    /\ result = <<>>
    /\ raised = "none"
    /\ AggIdle
    /\ PrefIdle
    /\ AddrIdle
    /\ ChooseIdle
    /\ SheetIdle
    /\ SinkIdle
    /\ ExtraIdle
    /\ invoices \in AmountInvoiceLists(MaxAmountRows)
    /\ computed = {}
    /\ total_amount = 0
    /\ customer_table = <<>>
    /\ invoice_string = <<>>

TotalAmountStep ==
    /\ "total" \notin computed
    /\ total_amount' = CalculateTotalAmount(invoices)
    /\ computed' = computed \cup {"total"}
    /\ UNCHANGED <<invoices, customer_table>>
    /\ AmountFrame

CustomerTableStep ==
    /\ "table" \notin computed
    /\ customer_table' = CreateCustomerTable(invoices)
    /\ computed' = computed \cup {"table"}
    /\ UNCHANGED <<invoices, total_amount>>
    /\ AmountFrame

NextAmount == TotalAmountStep \/ CustomerTableStep

SpecAmount == InitAmount /\ [][NextAmount]_vars

----------------------------------------------------------------------------
(* Claims about amounts *)

RECURSIVE SumSeq(_)
SumSeq(ns) == IF ns = <<>> THEN 0 ELSE Head(ns) + SumSeq(Tail(ns))

\* the columns of a row whose name holds an amount keyword, and those of them
\* whose value parses
AmountColumns(invoice) == { i \in DOMAIN invoice : NameHas(invoice[i][1], AmountKeywords) }
ParsableAmountColumns(invoice) == { i \in AmountColumns(invoice) : AmountOf(invoice[i][2]).ok }

Least(S) == CHOOSE i \in S : \A j \in S : i <= j

\* the row's contribution when only its first keyword column counts
FirstColumnAmount(invoice) ==
    IF AmountColumns(invoice) = {} THEN 0
    ELSE LET first == AmountOf(invoice[Least(AmountColumns(invoice))][2])
         IN IF first.ok THEN first.v ELSE 0

\* the row's contribution when its first keyword column that parses counts
FirstParsableAmount(invoice) ==
    IF ParsableAmountColumns(invoice) = {} THEN 0
    ELSE AmountOf(invoice[Least(ParsableAmountColumns(invoice))][2]).v

\* C3 as stated: each row contributes the value of its first keyword column
\* only, and nothing when that column is empty or does not parse, whatever a
\* later keyword column holds.
C3_FirstMatchingColumnOnly ==
    "total" \in computed =>
        total_amount = SumSeq([r \in DOMAIN invoices |-> FirstColumnAmount(invoices[r])])

\* C3 amended: each row contributes the value of the first keyword column (in
\* key order) whose value parses; later keyword columns add nothing once one
\* has parsed, a keyword column that is empty or does not parse is passed
\* over, and a row contributes nothing only when none of them parses.
C3_FirstParsableMatchingColumn ==
    "total" \in computed =>
        total_amount = SumSeq([r \in DOMAIN invoices |-> FirstParsableAmount(invoices[r])])

\* Amount=10, Total=20 counted as 10; Amount="x", Total=20 counted as 20
C3_Witness ==
    /\ "total" \in computed
    /\ Len(invoices) = 2
    /\ invoices[1] = << << <<"A","m","o","u","n","t">>, NumCell(10) >>,
                        << <<"T","o","t","a","l">>, NumCell(20) >> >>
    /\ invoices[2] = << << <<"A","m","o","u","n","t">>, StrCell(<<"x">>) >>,
                        << <<"T","o","t","a","l">>, NumCell(20) >> >>
    /\ total_amount = 3000

BothRendered == {"total", "table"} \subseteq computed

\* what float() makes of the text of a table cell
CellAmount(value) == ParseFloat(Strip(RemoveCurrencyMarks(PyStr(value))))

\* C9 as stated: a cell of a currency-hinted column (amount, balance, total,
\* price, due) that parses is rendered as '$' + thousands-separated value with
\* two decimals and the same value is added to the total; a cell that does not
\* parse is shown verbatim.
C9_RenderedAndAdded ==
    (BothRendered /\ Len(invoices) = 1) =>
        \A c \in DOMAIN invoices[1] :
            NameHas(invoices[1][c][1], TableNumKeys) =>
                LET value == invoices[1][c][2]
                    cell == customer_table.rows[1][c]
                IN IF CellAmount(value).ok
                   THEN /\ cell.text = FormatMoney(CellAmount(value).v)
                        /\ value.t = "str" /\ Head(value.s) = "$"
                              => total_amount = CellAmount(value).v
                   ELSE cell.text = PyStr(value)

\* C9 amended: the table side holds for every currency-hinted column; the
\* value is added to the total when the column's name holds one of balance,
\* amount, total, due (not merely price) and no earlier such column of the
\* row parses.
C9_RenderedAndAddedWhenCounted ==
    BothRendered =>
        /\ \A r \in DOMAIN invoices : \A c \in DOMAIN invoices[r] :
              NameHas(invoices[r][c][1], TableNumKeys) =>
                LET value == invoices[r][c][2]
                    cell == customer_table.rows[r][c]
                IN /\ cell.right
                   /\ IF CellAmount(value).ok
                      THEN cell.text = FormatMoney(CellAmount(value).v)
                      ELSE cell.text = PyStr(value)
                   /\ value = StrCell(S_1234_56) => cell.text = S_1234_56
        /\ Len(invoices) = 1 =>
              \A c \in DOMAIN invoices[1] :
                 ( /\ CellAmount(invoices[1][c][2]).ok
                   /\ c \in AmountColumns(invoices[1])
                   /\ \A b \in 1..(c - 1) : b \notin ParsableAmountColumns(invoices[1]) )
                 => /\ total_amount = CellAmount(invoices[1][c][2]).v
                    /\ invoices[1][c][2] = StrCell(S_1234_56) => total_amount = 123456

\* Amount="$1,234.56" is rendered "$1,234.56" and counted as 1234.56, beside
\* a cell shown verbatim
C9_Witness ==
    /\ BothRendered
    /\ Len(invoices) = 1
    /\ invoices[1][1] = << <<"A","m","o","u","n","t">>, StrCell(S_1234_56) >>
    /\ invoices[1][2][2] = StrCell(<<>>)
    /\ customer_table.rows[1][1].text = S_1234_56
    /\ customer_table.rows[1][2].text = <<>>
    /\ total_amount = 123456

----------------------------------------------------------------------------
(* Document Renderer: _build_invoice_string *)

S_invoice == <<"i","n","v","o","i","c","e">>
S_inv == <<"i","n","v">>
S_hash == <<"#">>
S_and == <<" ","a","n","d"," ">>
S_comma == <<","," ">>
S_your_invoices == <<"y","o","u","r"," ","i","n","v","o","i","c","e","s">>

\* line 602
InvoiceKeywords == {S_invoice, S_inv, S_hash}

HasDigit(s) == \E i \in DOMAIN s : IsDigit(s[i])

\* lines 600-604: the value of the first column whose name holds a keyword,
\* None when there is none
RECURSIVE HintedInvoiceValue(_, _)
HintedInvoiceValue(invoice, i) ==
    IF i > Len(invoice) THEN NoneCell
    ELSE IF NameHas(invoice[i][1], InvoiceKeywords) THEN invoice[i][2]
         ELSE HintedInvoiceValue(invoice, i + 1)

\* lines 608-611: the first truthy value whose text holds a digit
RECURSIVE FirstDigitValue(_, _)
FirstDigitValue(invoice, i) ==
    IF i > Len(invoice) THEN NoneCell
    ELSE IF Truthy(invoice[i][2]) /\ HasDigit(PyStr(invoice[i][2])) THEN invoice[i][2]
         ELSE FirstDigitValue(invoice, i + 1)

\* lines 598-611: inv_num of one row; the second scan runs whenever the first
\* left a falsy value
InvNumFallbackOnlyWithoutHint(invoice) ==
    IF \E i \in DOMAIN invoice : NameHas(invoice[i][1], InvoiceKeywords)
    THEN HintedInvoiceValue(invoice, 1)
    ELSE FirstDigitValue(invoice, 1)

InvNum(invoice) ==
    LET hinted == HintedInvoiceValue(invoice, 1)
    IN IF Truthy(hinted) THEN hinted ELSE FirstDigitValue(invoice, 1)

\* lines 613-614
RECURSIVE InvoiceList(_)
InvoiceList(invs) ==
    IF invs = <<>> THEN <<>>
    ELSE LET inv_num == InvNum(Head(invs))
         IN (IF Truthy(inv_num) /\ ~IsNa(inv_num) /\ Strip(PyStr(inv_num)) # <<>>
             THEN <<Strip(PyStr(inv_num))>> ELSE <<>>)
            \o InvoiceList(Tail(invs))

\* sep.join(parts)
RECURSIVE Join(_, _)
Join(sep, parts) ==
    IF parts = <<>> THEN <<>>
    ELSE IF Len(parts) = 1 THEN parts[1]
    ELSE parts[1] \o sep \o Join(sep, Tail(parts))

InvoiceListTextOxford(invoice_list) ==
    IF invoice_list = <<>> THEN S_your_invoices
    ELSE IF Len(invoice_list) = 1 THEN invoice_list[1]
    ELSE Join(S_comma, invoice_list)

\* lines 616-622
InvoiceListText(invoice_list) ==
    IF invoice_list = <<>> THEN S_your_invoices
    ELSE IF Len(invoice_list) = 1 THEN invoice_list[1]
    ELSE Join(S_comma, SubSeq(invoice_list, 1, Len(invoice_list) - 1))
            \o S_and \o invoice_list[Len(invoice_list)]

\* _build_invoice_string
BuildInvoiceString(invs) == InvoiceListText(InvoiceList(invs))

----------------------------------------------------------------------------
(* Renderer run on invoice ids *)

InvoiceColumnChoices ==
    { << <<"I","n","v","o","i","c","e">>, <<"A","m","o","u","n","t">> >>,
      << <<"R","e","f">>, <<"A","m","o","u","n","t">> >> }

FirstInvoiceCells ==
    { StrCell(<<"A","-","1">>), StrCell(<<"A","-","2">>), StrCell(<<" ","B","7"," ">>),
      StrCell(<<>>), NumCell(0) }
SecondInvoiceCells == { NumCell(10), StrCell(<<>>) }

InvoiceRows(n) ==
    { [r \in 1..n |-> << <<cols[1], rows[r][1]>>, <<cols[2], rows[r][2]>> >>] :
        cols \in InvoiceColumnChoices,
        rows \in [1..n -> FirstInvoiceCells \X SecondInvoiceCells] }

InvoiceRowLists(max) == UNION { InvoiceRows(n) : n \in 0..max }

InvoiceFrame ==
    UNCHANGED <<pc, result, raised, aggVars, prefVars, addrVars, chooseVars,
               sheetVars, sinkVars, extraVars,
               total_amount, customer_table>>

InitInvoice ==
    /\ pc = "render"
    /\ result = <<>>
    /\ raised = "none"
    /\ AggIdle
    /\ PrefIdle
    /\ AddrIdle
    /\ ChooseIdle
    /\ SheetIdle
    /\ SinkIdle
    /\ ExtraIdle
    /\ invoices \in InvoiceRowLists(MaxInvoiceRows)
    /\ computed = {}
    /\ total_amount = 0
    /\ customer_table = <<>>
    /\ invoice_string = <<>>

InvoiceStringStep ==
    /\ "invoice" \notin computed
    /\ invoice_string' = BuildInvoiceString(invoices)
    /\ computed' = computed \cup {"invoice"}
    /\ UNCHANGED invoices
    /\ InvoiceFrame

NextInvoice == InvoiceStringStep

SpecInvoice == InitInvoice /\ [][NextInvoice]_vars

----------------------------------------------------------------------------
(* Claims about the invoice list *)

\* the ids of the rows, each row taken alone, in row order
RECURSIVE IdsInRowOrder(_)
IdsInRowOrder(r) ==
    IF r > Len(invoices) THEN <<>>
    ELSE InvoiceList(<<invoices[r]>>) \o IdsInRowOrder(r + 1)

\* ids[1], ids[2], ... ids[n] with ", " between them
RECURSIVE CommaList(_, _)
CommaList(ids, n) ==
    IF n = 1 THEN ids[1] ELSE CommaList(ids, n - 1) \o <<",", " ">> \o ids[n]

\* C4: _build_invoice_string returns "your invoices" for no id, the id for
\* one, "A and B" for two, and for n >= 3 the first n-1 ids joined by ", "
\* then " and " and the last id, with no comma before "and"; the ids are in
\* source row order.
C4_InvoiceListJoin ==
    "invoice" \in computed =>
        LET ids == IdsInRowOrder(1)
            n == Len(ids)
        IN /\ n = 0 => invoice_string = <<"y","o","u","r"," ","i","n","v","o","i","c","e","s">>
           /\ n = 1 => invoice_string = ids[1]
           /\ n = 2 => invoice_string = ids[1] \o <<" ","a","n","d"," ">> \o ids[2]
           /\ n = 3 => invoice_string =
                 ids[1] \o <<",", " ">> \o ids[2] \o <<" ","a","n","d"," ">> \o ids[3]
           /\ n >= 3 => invoice_string =
                 CommaList(ids, n - 1) \o <<" ","a","n","d"," ">> \o ids[n]

\* three rows with ids A-2, B7, A-1 give "A-2, B7 and A-1"
C4_Witness ==
    /\ "invoice" \in computed
    /\ Len(invoices) = 3
    /\ invoices[1][1][2] = StrCell(<<"A","-","2">>)
    /\ invoices[2][1][2] = StrCell(<<" ","B","7"," ">>)
    /\ invoices[3][1][2] = StrCell(<<"A","-","1">>)
    /\ invoice_string = <<"A","-","2",","," ","B","7"," ","a","n","d"," ","A","-","1">>

\* the columns of a row whose name holds "invoice", "inv" or "#" in any case
HintedColumns(row) ==
    { i \in DOMAIN row :
        \E k \in { <<"i","n","v","o","i","c","e">>, <<"i","n","v">>, <<"#">> } :
            Contains(k, Lower(row[i][1])) }

\* the columns of a row whose value is not empty and shows a digit
DigitColumns(row) ==
    { i \in DOMAIN row : Truthy(row[i][2]) /\ HasDigit(PyStr(row[i][2])) }

FirstValueOf(row, cols) == IF cols = {} THEN NoneCell ELSE row[Least(cols)][2]

\* the id of a row when the fallback is used only for want of a hinted column
IdWithoutHintFallback(row) ==
    IF HintedColumns(row) # {} THEN FirstValueOf(row, HintedColumns(row))
    ELSE FirstValueOf(row, DigitColumns(row))

\* the id of a row when the fallback is also used for an empty hinted value
IdWithEmptyFallback(row) ==
    IF Truthy(FirstValueOf(row, HintedColumns(row)))
    THEN FirstValueOf(row, HintedColumns(row))
    ELSE FirstValueOf(row, DigitColumns(row))

\* the ids kept, in row order: empty results are discarded
RECURSIVE KeptIds(_, _)
KeptIds(r, emptyFallsBack) ==
    IF r > Len(invoices) THEN <<>>
    ELSE LET id == IF emptyFallsBack THEN IdWithEmptyFallback(invoices[r])
                   ELSE IdWithoutHintFallback(invoices[r])
         IN (IF Truthy(id) /\ Strip(PyStr(id)) # <<>> THEN <<Strip(PyStr(id))>> ELSE <<>>)
            \o KeptIds(r + 1, emptyFallsBack)

\* C14 as stated: the id of a row is the value of the first column whose name
\* holds a hint; the first column whose value shows a digit is used only when
\* no column name of the row matches, so a row whose matching column is empty
\* contributes no id.
C14_FallbackOnlyWithoutHint ==
    "invoice" \in computed => invoice_string = InvoiceListText(KeptIds(1, FALSE))

\* C14: the id of a row is the value of the first column whose name holds a
\* hint when that value is not empty; the first column whose value shows a
\* digit is used when no column name matches and also when the first matching
\* column's value is empty (None, "", 0).
C14_FallbackAlsoForEmptyHint ==
    "invoice" \in computed => invoice_string = InvoiceListText(KeptIds(1, TRUE))

\* one row whose Invoice cell is empty and whose Amount is 10: the id is "10"
C14_Witness ==
    /\ "invoice" \in computed
    /\ Len(invoices) = 1
    /\ invoices[1][1] = << <<"I","n","v","o","i","c","e">>, StrCell(<<>>) >>
    /\ invoices[1][2][2] = NumCell(10)
    /\ invoice_string = <<"1","0">>

----------------------------------------------------------------------------
(* Address helpers: _parse_addresses, _format_addrs_for_mime *)

\* addr_str.replace(';', ',')
SemicolonsToCommas(s) == [i \in DOMAIN s |-> IF s[i] = ";" THEN "," ELSE s[i]]

\* tmp.split(','): the pieces between commas, empty pieces included
RECURSIVE SplitFrom(_, _, _)
SplitFrom(s, sep, piece) ==
    IF s = <<>> THEN <<piece>>
    ELSE IF Head(s) = sep THEN <<piece>> \o SplitFrom(Tail(s), sep, <<>>)
    ELSE SplitFrom(Tail(s), sep, Append(piece, Head(s)))

Split(s, sep) == SplitFrom(s, sep, <<>>)

\* [p.strip() for p in pieces if p.strip()]
RECURSIVE StrippedNonEmpty(_)
StrippedNonEmpty(pieces) ==
    IF pieces = <<>> THEN <<>>
    ELSE (IF Strip(Head(pieces)) # <<>> THEN <<Strip(Head(pieces))>> ELSE <<>>)
            \o StrippedNonEmpty(Tail(pieces))

HasAt(p) == \E i \in DOMAIN p : p[i] = "@"

\* _parse_addresses
ParseAddressesCommaOnly(s) ==
    IF s = <<>> THEN <<>>
    ELSE SelectSeq(StrippedNonEmpty(Split(s, ",")), HasAt)

ParseAddresses(s) ==
    IF s = <<>> THEN <<>>
    ELSE SelectSeq(StrippedNonEmpty(Split(SemicolonsToCommas(s), ",")), HasAt)

\* _format_addrs_for_mime
FormatAddrsForMime(addrs) == Join(S_comma, addrs)

----------------------------------------------------------------------------
(* Address parsing run *)

AddrChars == {"a", "@", ";", ",", " "}

AddrTexts(max) == UNION { [1..n -> AddrChars] : n \in 0..max }

AddrFrame ==
    UNCHANGED <<raised, aggVars, prefVars, renderVars, chooseVars, sheetVars, sinkVars,
               extraVars>>

InitAddr ==
    /\ pc = "start"
    /\ result = <<>>
    /\ raised = "none"
    /\ AggIdle
    /\ PrefIdle
    /\ RenderIdle
    /\ ChooseIdle
    /\ SheetIdle
    /\ SinkIdle
    /\ ExtraIdle
    /\ addr_str \in AddrTexts(MaxAddrLen)

ParseAddressesStep ==
    /\ pc = "start"
    /\ result' = ParseAddresses(addr_str)
    /\ pc' = "done"
    /\ UNCHANGED addr_str
    /\ AddrFrame

NextAddr == ParseAddressesStep

SpecAddr == InitAddr /\ [][NextAddr]_vars

----------------------------------------------------------------------------
(* Claims about address parsing *)

IsSeparator(c) == c \in {";", ","}

\* the text with every separator written as c
WithSeparator(s, c) == [i \in DOMAIN s |-> IF IsSeparator(s[i]) THEN c ELSE s[i]]

\* the positions that bound the tokens of addr_str: 0, each separator, the end
TokenBounds == {0, Len(addr_str) + 1} \cup { i \in DOMAIN addr_str : IsSeparator(addr_str[i]) }

\* the tokens that start after bound b, in order: trimmed, empty ones and
\* ones without '@' left out
RECURSIVE KeptTokensAfter(_)
KeptTokensAfter(b) ==
    IF b > Len(addr_str) THEN <<>>
    ELSE LET next == Least({ i \in TokenBounds : i > b })
             token == Strip(SubSeq(addr_str, b + 1, next - 1))
         IN (IF token # <<>> /\ HasAt(token) THEN <<token>> ELSE <<>>)
               \o KeptTokensAfter(next)

\* C5: _parse_addresses gives the same ordered result whether the tokens are
\* separated by ';', by ',' or by a mix; every token is trimmed, empty tokens
\* are dropped and so is every token without '@'.
C5_SeparatorsEquivalent ==
    pc = "done" =>
        /\ result = ParseAddresses(WithSeparator(addr_str, ";"))
        /\ result = ParseAddresses(WithSeparator(addr_str, ","))
        /\ result = KeptTokensAfter(0)
        /\ \A i \in DOMAIN result :
              /\ result[i] # <<>>
              /\ Strip(result[i]) = result[i]
              /\ HasAt(result[i])
              /\ \A j \in DOMAIN result[i] : ~IsSeparator(result[i][j])

\* "@;@,a": both separators, two addresses kept, the token without '@' dropped
C5_Witness ==
    /\ pc = "done"
    /\ addr_str = <<"@", ";", "@", ",", "a">>
    /\ result = << <<"@">>, <<"@">> >>

----------------------------------------------------------------------------
(* Preference round trips: processors constructed one after another over the
   same files, _save_pref and _choose_column calls between them *)

EmailColumnKey == "emails_email_column"
PrefKeys == {MainCustomerKey, EmailColumnKey}

S_Email == <<"E","m","a","i","l">>

\* column names after normalisation; a header cell of blanks normalises to ""
PrefColumnNames == {S_Customer, S_Email, <<>>}

\* column lists a sheet may offer
ColumnLists == { <<S_Customer, S_Email>>, <<S_Email, <<>>>>, <<S_Customer>> }

NoSave == [called |-> FALSE, value |-> <<>>, ok |-> FALSE, reloaded |-> FALSE]

\* the history after _save_pref(key, value) whose file write succeeded or not
NoteSave(log, key, value, writeOk) ==
    DictSet(log, key, [called |-> TRUE, value |-> value, ok |-> writeOk, reloaded |-> FALSE])

\* the history after a processor is constructed
NoteReload(log) == [i \in DOMAIN log |-> <<log[i][1], [log[i][2] EXCEPT !.reloaded = TRUE]>>]

PrefsFrame ==
    UNCHANGED <<raised, aggVars, renderVars, addrVars, sheetVars, sinkVars, extraVars>>

InitPrefs ==
    /\ pc = "new"
    /\ result = <<>>
    /\ raised = "none"
    /\ AggIdle
    /\ RenderIdle
    /\ AddrIdle
    /\ SheetIdle
    /\ SinkIdle
    /\ ExtraIdle
    /\ prefs = <<>>
    /\ prefs_file \in {AbsentFile, CorruptFile}
    /\ cwd_prefs \in {AbsentFile, JsonFile(<< <<MainCustomerKey, StrCell(S_Email)>> >>)}
    /\ inputs_read = 0
    /\ file_writes = 0
    /\ choose_columns = <<>>
    /\ choose_key = ""
    /\ last_save = <<>>

\* __init__: self._prefs = self._load_prefs(); a legacy file that is used is
\* copied beside the script when that file can be written
NewProcessor ==
    /\ pc \in {"new", "idle"}
    /\ prefs' = LoadPrefs(prefs_file, cwd_prefs)
    /\ \E writeOk \in BOOLEAN :
         prefs_file' = IF prefs_file.state # "json" /\ cwd_prefs.state = "json" /\ writeOk
                       THEN JsonFile(JsonLoad(cwd_prefs.body))
                       ELSE prefs_file
    /\ last_save' = NoteReload(last_save)
    /\ pc' = "idle"
    /\ inputs_read' = 0
    /\ file_writes' = 0
    /\ UNCHANGED <<result, cwd_prefs, choose_columns, choose_key>>
    /\ PrefsFrame

\* _save_pref(key, value)
SavePref ==
    /\ pc = "idle"
    /\ \E key \in PrefKeys, value \in PrefColumnNames, writeOk \in BOOLEAN :
         /\ prefs' = SavePrefMemory(prefs, key, value)
         /\ prefs_file' = SavePrefFile(prefs_file, prefs', writeOk)
         /\ last_save' = NoteSave(last_save, key, value, writeOk)
    /\ inputs_read' = 0
    /\ file_writes' = 1
    /\ UNCHANGED <<pc, result, cwd_prefs, choose_columns, choose_key>>
    /\ PrefsFrame

\* _choose_column(columns, column_type, pref_key) up to its first input()
ChooseColumnBegin ==
    /\ pc = "idle"
    /\ \E cols \in ColumnLists, key \in PrefKeys :
         /\ choose_columns' = cols
         /\ choose_key' = key
         /\ IF SavedChoiceApplies(cols, prefs, key)
            THEN /\ result' = PyStr(GetPref(prefs, key))
                 /\ pc' = "returned"
            ELSE /\ result' = <<>>
                 /\ pc' = "prompt"
    /\ inputs_read' = 0
    /\ file_writes' = 0
    /\ UNCHANGED <<prefs, prefs_file, cwd_prefs, last_save>>
    /\ PrefsFrame

\* an input() that is rejected
ChoosePromptAgain ==
    /\ pc = "prompt"
    /\ inputs_read < MaxPrompts
    /\ \E line \in InputLines :
         /\ PromptChoice(choose_columns, line).again
         /\ inputs_read' = inputs_read + 1
    /\ UNCHANGED <<pc, result, prefs, prefs_file, file_writes, chooseVars>>
    /\ PrefsFrame

\* an input() that is accepted: the choice is saved under the role key
ChoosePromptChosen ==
    /\ pc = "prompt"
    /\ \E line \in InputLines, writeOk \in BOOLEAN :
         LET c == PromptChoice(choose_columns, line)
         IN /\ ~c.again
            /\ inputs_read' = inputs_read + 1
            /\ prefs' = SavePrefMemory(prefs, choose_key, c.chosen)
            /\ prefs_file' = SavePrefFile(prefs_file, prefs', writeOk)
            /\ last_save' = NoteSave(last_save, choose_key, c.chosen, writeOk)
            /\ file_writes' = file_writes + 1
            /\ result' = c.chosen
            /\ pc' = "returned"
    /\ UNCHANGED <<cwd_prefs, choose_columns, choose_key>>
    /\ PrefsFrame

\* the caller goes on with the processor
ChooseColumnReturn ==
    /\ pc = "returned"
    /\ pc' = "idle"
    /\ UNCHANGED <<result, prefVars, chooseVars>>
    /\ PrefsFrame

NextPrefs ==
    \/ NewProcessor
    \/ SavePref
    \/ ChooseColumnBegin
    \/ ChoosePromptAgain
    \/ ChoosePromptChosen
    \/ ChooseColumnReturn

SpecPrefs == InitPrefs /\ [][NextPrefs]_vars

----------------------------------------------------------------------------
(* Claims about the preference round trip *)

\* the last _save_pref of the role key in hand wrote the file, and a
\* processor has been constructed since
SavedAndReloaded ==
    LET s == DictGet(last_save, choose_key, NoSave)
    IN s.called /\ s.ok /\ s.reloaded

SavedValue == DictGet(last_save, choose_key, NoSave).value

SavedValueListed == \E i \in DOMAIN choose_columns : choose_columns[i] = SavedValue

\* C6: when role key k was saved with value v by _save_pref and the
\* preferences were then reloaded by a new processor, _choose_column with
\* pref_key k returns v without reading input and without writing the store
\* if v is in the column list, and prompts if it is not.
C6_SavedChoiceReturned ==
    (pc \in {"returned", "prompt"} /\ SavedAndReloaded) =>
        IF SavedValueListed
        THEN pc = "returned" /\ result = SavedValue /\ inputs_read = 0 /\ file_writes = 0
        ELSE pc = "prompt"

\* the same for column names that are not the empty string
SavedNonEmptyChoiceReturned ==
    (pc \in {"returned", "prompt"} /\ SavedAndReloaded /\ SavedValue # <<>>) =>
        IF SavedValueListed
        THEN pc = "returned" /\ result = SavedValue /\ inputs_read = 0 /\ file_writes = 0
        ELSE pc = "prompt"

----------------------------------------------------------------------------
(* Listing the sheet names: _list_sheet_names_robust *)

S_xlsx == <<".","x","l","s","x">>
S_xlsm == <<".","x","l","s","m">>
S_xlsb == <<".","x","l","s","b">>
S_xls == <<".","x","l","s">>
S_XLSM == <<".","X","L","S","M">>

Suffixes == {S_xlsx, S_XLSM, S_xls, S_xlsb}

\* what one strategy makes of the file: it throws, or it has a list of names
Throws == [threw |-> TRUE, sheets |-> <<>>]
Sheets(names) == [threw |-> FALSE, sheets |-> names]

\* "if sheets:" after a strategy that did not throw
SheetsFoundEvenEmpty(outcome) == ~outcome.threw

SheetsFound(outcome) == ~outcome.threw /\ outcome.sheets # <<>>

\* lines 193-205
EnginesToTryLegacyFirst(suffix, importable) ==
    <<"pandas:None", "pandas:xlrd", "pandas:openpyxl">>
    \o (IF Lower(suffix) = S_xlsb /\ importable THEN <<"pandas:pyxlsb">> ELSE <<>>)

EnginesToTry(suffix, importable) ==
    <<"pandas:None", "pandas:openpyxl", "pandas:xlrd">>
    \o (IF Lower(suffix) = S_xlsb /\ importable THEN <<"pandas:pyxlsb">> ELSE <<>>)

\* lines 223-227
ParamsToTry ==
    <<"openpyxl:read_only,data_only", "openpyxl:data_only", "openpyxl:read_only">>

\* line 245
Win32Applies(os) == os = "nt"

\* line 261
ManualZipNever(suffix) == FALSE

ManualZipApplies(suffix) == Lower(suffix) \in {S_xlsx, S_xlsm}

\* the strategies a call goes through when none of them finds sheets
Cascade(suffix, importable, os) ==
    EnginesToTry(suffix, importable)
    \o ParamsToTry
    \o (IF Win32Applies(os) THEN <<"win32com">> ELSE <<>>)
    \o (IF ManualZipApplies(suffix) THEN <<"manual_zip">> ELSE <<>>)

\* what the readers may make of a file
LibraryOutcomes == {Throws, Sheets(<<>>), Sheets(<<"Data", "Emails">>)}
ManualOutcomes == {Throws, Sheets(<<>>), Sheets(<<"Sheet1">>)}

OutcomesOf(strategy) ==
    IF strategy = "manual_zip" THEN {workbook_xml} ELSE LibraryOutcomes

SheetFrame ==
    UNCHANGED <<aggVars, prefVars, renderVars, addrVars, chooseVars, sinkVars, extraVars>>

InitSheets ==
    /\ pc = "call"
    /\ result = <<>>
    /\ raised = "none"
    /\ AggIdle
    /\ PrefIdle
    /\ RenderIdle
    /\ AddrIdle
    /\ ChooseIdle
    /\ SinkIdle
    /\ ExtraIdle
    /\ file_exists \in BOOLEAN
    /\ file_suffix \in Suffixes
    /\ os_name \in {"nt", "posix"}
    /\ pyxlsb_importable \in BOOLEAN
    /\ workbook_xml \in ManualOutcomes
    /\ strategy_pos = 0
    /\ attempted = <<>>

\* lines 184-190
ListSheetsBegin ==
    /\ pc = "call"
    /\ IF file_exists
       THEN /\ pc' = "try"
            /\ strategy_pos' = 1
            /\ raised' = raised
       ELSE /\ pc' = "raised"
            /\ strategy_pos' = strategy_pos
            /\ raised' = "FileNotFoundError"
    /\ UNCHANGED <<result, file_exists, file_suffix, os_name, pyxlsb_importable,
                   workbook_xml, attempted>>
    /\ SheetFrame

\* one strategy is tried: its sheets are returned, or the next one is due
AttemptStrategy ==
    /\ pc = "try"
    /\ strategy_pos <= Len(Cascade(file_suffix, pyxlsb_importable, os_name))
    /\ LET strategy == Cascade(file_suffix, pyxlsb_importable, os_name)[strategy_pos]
       IN \E outcome \in OutcomesOf(strategy) :
            /\ attempted' = Append(attempted, [strategy |-> strategy, outcome |-> outcome])
            /\ IF SheetsFound(outcome)
               THEN /\ result' = outcome.sheets
                    /\ pc' = "returned"
                    /\ strategy_pos' = strategy_pos
               ELSE /\ result' = result
                    /\ pc' = pc
                    /\ strategy_pos' = strategy_pos + 1
    /\ UNCHANGED <<raised, file_exists, file_suffix, os_name, pyxlsb_importable, workbook_xml>>
    /\ SheetFrame

\* lines 287-298
RaiseUnreadable ==
    /\ pc = "try"
    /\ strategy_pos > Len(Cascade(file_suffix, pyxlsb_importable, os_name))
    /\ raised' = "RuntimeError"
    /\ pc' = "raised"
    /\ UNCHANGED <<result, sheetVars>>
    /\ SheetFrame

NextSheets ==
    \/ ListSheetsBegin
    \/ AttemptStrategy
    \/ RaiseUnreadable

SpecSheets == InitSheets /\ [][NextSheets]_vars

----------------------------------------------------------------------------
(* Claims about the sheet-name cascade *)

\* the strategies of the cascade in their priority order
StrategyOrder ==
    <<"pandas:None", "pandas:openpyxl", "pandas:xlrd", "pandas:pyxlsb",
      "openpyxl:read_only,data_only", "openpyxl:data_only", "openpyxl:read_only",
      "win32com", "manual_zip">>

RankOf(strategy) == CHOOSE i \in DOMAIN StrategyOrder : StrategyOrder[i] = strategy

Failed(outcome) == outcome.threw \/ outcome.sheets = <<>>

\* C7: the strategies are tried one at a time in the fixed order, each at
\* most once per call; a strategy that throws or yields an empty list only
\* advances the cascade; the call returns exactly the sheet list of the first
\* strategy that yields a non-empty list and tries no strategy after it.
C7_FirstNonEmptyWins ==
    /\ \A i \in DOMAIN attempted :
         \E r \in DOMAIN StrategyOrder : StrategyOrder[r] = attempted[i].strategy
    /\ \A i, j \in DOMAIN attempted :
         i < j => RankOf(attempted[i].strategy) < RankOf(attempted[j].strategy)
    /\ \A i \in DOMAIN attempted :
         i < Len(attempted) => Failed(attempted[i].outcome)
    /\ \A i \in DOMAIN attempted :
         ~Failed(attempted[i].outcome) =>
            /\ i = Len(attempted)
            /\ pc = "returned"
            /\ result = attempted[i].outcome.sheets
            /\ raised = "none"
    /\ pc = "returned" =>
         /\ attempted # <<>>
         /\ result # <<>>
         /\ result = attempted[Len(attempted)].outcome.sheets
         /\ ~attempted[Len(attempted)].outcome.threw

\* strategy 1 throws, strategy 2 yields ["Data", "Emails"], which is returned
C7_Witness ==
    /\ pc = "returned"
    /\ Len(attempted) = 2
    /\ attempted[1] = [strategy |-> "pandas:None", outcome |-> Throws]
    /\ attempted[2].strategy = "pandas:openpyxl"
    /\ result = <<"Data", "Emails">>

WasAttempted(strategy) == \E i \in DOMAIN attempted : attempted[i].strategy = strategy

Unreadable == pc = "raised" /\ raised = "RuntimeError"

\* C10 as stated: the unreadable-workbook error is raised only when every
\* strategy of the cascade has been tried and none had a non-empty list; the
\* manual parse of workbook.xml is tried before the error is raised, and the
\* error is never raised when some strategy would have yielded a non-empty list.
C10_EveryStrategyTried ==
    Unreadable =>
        /\ \A i \in DOMAIN attempted : Failed(attempted[i].outcome)
        /\ WasAttempted("manual_zip")
        /\ Failed(workbook_xml)

\* the strategies that apply to a file: the pyxlsb engine for an .xlsb file
\* when its library is installed, win32com on Windows, the manual parse for an
\* .xlsx or .xlsm file, every other one always
AppliesHere(strategy) ==
    CASE strategy = "pandas:pyxlsb" -> Lower(file_suffix) = S_xlsb /\ pyxlsb_importable
      [] strategy = "win32com" -> os_name = "nt"
      [] strategy = "manual_zip" -> Lower(file_suffix) = S_xlsx \/ Lower(file_suffix) = S_xlsm
      [] OTHER -> TRUE

\* C10: the unreadable-workbook error is raised only when every strategy
\* that applies to the file has been tried and none had a non-empty list; for
\* an .xlsx or .xlsm file the manual parse of workbook.xml is tried before the
\* error is raised, and the error is never raised when a strategy that applies
\* found a non-empty list.
C10_EveryApplicableStrategyTried ==
    Unreadable =>
        /\ \A i \in DOMAIN attempted : Failed(attempted[i].outcome)
        /\ \A r \in DOMAIN StrategyOrder :
             AppliesHere(StrategyOrder[r]) <=> WasAttempted(StrategyOrder[r])
        /\ AppliesHere("manual_zip") => Failed(workbook_xml)

\* an .xlsm file on which every strategy fails, the manual parse the last one
C10_Witness ==
    /\ Unreadable
    /\ file_suffix = S_XLSM
    /\ attempted # <<>>
    /\ attempted[Len(attempted)].strategy = "manual_zip"
    /\ attempted[Len(attempted)].outcome = Sheets(<<>>)

StrategyAt(i) == IF i <= Len(attempted) THEN attempted[i].strategy ELSE "not tried"

XlsbEngineDue == Lower(file_suffix) = <<".","x","l","s","b">> /\ pyxlsb_importable

\* C19 as stated: after the auto-detect engine the explicit engine for the
\* legacy binary format (xlrd) is tried before the explicit engine for the
\* XML-zip format (openpyxl), and the format-specific binary engine (pyxlsb)
\* comes last among the engines, only for an .xlsb file whose library imports.
C19_LegacyEngineBeforeXmlEngine ==
    /\ Len(attempted) >= 1 => StrategyAt(1) = "pandas:None"
    /\ Len(attempted) >= 2 => StrategyAt(2) = "pandas:xlrd"
    /\ Len(attempted) >= 3 => StrategyAt(3) = "pandas:openpyxl"
    /\ Len(attempted) >= 4 => (StrategyAt(4) = "pandas:pyxlsb" <=> XlsbEngineDue)
    /\ \A i \in DOMAIN attempted : StrategyAt(i) = "pandas:pyxlsb" => i = 4

\* C19: after the auto-detect engine the explicit engine for the XML-zip
\* format (openpyxl) is tried before the explicit engine for the legacy binary
\* format (xlrd), and the format-specific binary engine (pyxlsb) comes last
\* among the engines, only for an .xlsb file whose library imports.
C19_XmlEngineBeforeLegacyEngine ==
    /\ Len(attempted) >= 1 => StrategyAt(1) = "pandas:None"
    /\ Len(attempted) >= 2 => StrategyAt(2) = "pandas:openpyxl"
    /\ Len(attempted) >= 3 => StrategyAt(3) = "pandas:xlrd"
    /\ Len(attempted) >= 4 => (StrategyAt(4) = "pandas:pyxlsb" <=> XlsbEngineDue)
    /\ \A i \in DOMAIN attempted : StrategyAt(i) = "pandas:pyxlsb" => i = 4

\* all four engines have been tried on an .xlsb file
C19_Witness ==
    /\ Len(attempted) >= 4
    /\ XlsbEngineDue
    /\ StrategyAt(2) = "pandas:openpyxl"
    /\ StrategyAt(3) = "pandas:xlrd"
    /\ StrategyAt(4) = "pandas:pyxlsb"

----------------------------------------------------------------------------
(* Delivery sinks: _create_emails hands customer_data to one of them *)

SinkNames == << <<"a">>, <<"b">>, <<"c">> >>

S_a_at_x == <<"a","@","x">>
S_b_at_x == <<"b","@","x">>

\* customer_data with n customers of one row each
SinkCustomers(n) ==
    [i \in 1..n |-> <<SinkNames[i], << << <<S_Customer, StrCell(SinkNames[i])>> >> >> >>]

\* address books as _get_email_addresses may return them
AddressBooks ==
    { <<>>,
      << <<SinkNames[1], StrCell(S_a_at_x)>> >>,
      << <<SinkNames[2], StrCell(S_b_at_x)>> >>,
      << <<SinkNames[1], StrCell(S_a_at_x)>>, <<SinkNames[2], StrCell(S_b_at_x)>> >> }

\* answers to "Enter email address for ..."
AddressLines == { <<>>, <<" ">>, <<"c","@","x"," ">> }

\* answers to "Enter your choice (1-5)" that lead to a loop over the customers
SinkChoices == { <<"1">>, <<"2">>, <<" ","3">>, <<"5">>, <<"9">> }

Platforms == {"win32", "darwin", "linux"}

\* lines 519-533, and lines 1016, 1088 for choice 5
SinkOf(choice_line, platform) ==
    LET choice == Strip(choice_line)
    IN CASE choice = <<"1">> -> "smtp"
         [] choice = <<"2">> -> "files"
         [] choice = <<"3">> -> "terminal"
         [] choice = <<"5">> ->
              (IF platform = "win32" THEN "drafts_win"
               ELSE IF platform = "darwin" THEN "drafts_mac"
               ELSE "drafts_unsupported")
         [] OTHER -> "files"

\* customer_email = email_addresses.get(customer_name), else the typed line
CustomerEmail(book, name, line) ==
    LET found == DictGet(book, name, NoneCell)
    IN IF Truthy(found) THEN PyStr(found) ELSE Strip(line)

PassOutcomeMissingFails(book, name, line, fails) ==
    IF CustomerEmail(book, name, line) = <<>> \/ fails THEN "failed"
    ELSE "delivered"

\* what one pass of a sink's loop body comes to
PassOutcome(book, name, line, fails) ==
    IF CustomerEmail(book, name, line) = <<>> THEN "skipped"
    ELSE IF fails THEN "failed"
    ELSE "delivered"

\* the prompt of a pass: issued when the book has no address for the customer
NoteAnswer(log, book, name, line) ==
    LET asked == ~Truthy(DictGet(book, name, NoneCell))
    IN Append(log, [customer |-> name, asked |-> asked,
                    line |-> IF asked THEN line ELSE <<>>])

NoteDelivery(log, name, outcome) == Append(log, [customer |-> name, outcome |-> outcome])

SinkFrame ==
    UNCHANGED <<result, prefVars, renderVars, addrVars, chooseVars, sheetVars, extraVars>>

InitSink ==
    /\ pc = "choose"
    /\ result = <<>>
    /\ raised = "none"
    /\ PrefIdle
    /\ RenderIdle
    /\ AddrIdle
    /\ ChooseIdle
    /\ SheetIdle
    /\ ExtraIdle
    /\ data_sheet = [columns |-> <<>>, rows |-> <<>>]
    /\ \E n \in 1..MaxCustomers : customer_data = SinkCustomers(n)
    /\ email_addresses \in AddressBooks
    /\ sink = ""
    /\ sink_pos = 0
    /\ delivery_log = <<>>
    /\ answers = <<>>

\* _create_emails, lines 519-533: the choice picks the sink
CreateEmailsDispatch ==
    /\ pc = "choose"
    /\ \E choice_line \in SinkChoices, platform \in Platforms :
         /\ sink' = SinkOf(choice_line, platform)
         /\ pc' = IF sink' = "drafts_unsupported" THEN "done" ELSE "loop"
    /\ sink_pos' = 1
    /\ UNCHANGED <<raised, aggVars, email_addresses, delivery_log, answers>>
    /\ SinkFrame

\* _send_emails_automatically, lines 961-1002: one pass of the loop; the try
\* statement is around the loop
SendNext ==
    /\ pc = "loop"
    /\ sink = "smtp"
    /\ sink_pos <= Len(customer_data)
    /\ \E line \in AddressLines, fails \in BOOLEAN :
         LET name == customer_data[sink_pos][1]
             outcome == PassOutcome(email_addresses, name, line, fails)
         IN /\ delivery_log' = NoteDelivery(delivery_log, name, outcome)
            /\ answers' = NoteAnswer(answers, email_addresses, name, line)
            /\ IF outcome = "failed"
               THEN /\ pc' = "done"
                    /\ sink_pos' = sink_pos
               ELSE /\ pc' = IF sink_pos = Len(customer_data) THEN "done" ELSE "loop"
                    /\ sink_pos' = sink_pos + 1
    /\ UNCHANGED <<raised, aggVars, sink, email_addresses>>
    /\ SinkFrame

SaveFileNextConsuming ==
    /\ pc = "loop"
    /\ sink = "files"
    /\ sink_pos <= Len(customer_data)
    /\ \E line \in AddressLines, fails \in BOOLEAN :
         LET name == customer_data[sink_pos][1]
             outcome == PassOutcome(email_addresses, name, line, fails)
         IN /\ delivery_log' = NoteDelivery(delivery_log, name, outcome)
            /\ answers' = NoteAnswer(answers, email_addresses, name, line)
            /\ IF outcome = "failed"
               THEN /\ pc' = "done"
                    /\ raised' = "Exception"
                    /\ sink_pos' = sink_pos
               ELSE /\ pc' = IF sink_pos = Len(customer_data) THEN "done" ELSE "loop"
                    /\ raised' = raised
                    /\ sink_pos' = sink_pos + 1
    /\ customer_data' = [customer_data EXCEPT ![sink_pos] = <<customer_data[sink_pos][1], <<>>>>]
    /\ UNCHANGED <<data_sheet, sink, email_addresses>>
    /\ SinkFrame

\* _save_emails_to_files, lines 1183-1210: one pass of the loop; an exception
\* leaves the function and is caught by _create_emails, line 535
SaveFileNext ==
    /\ pc = "loop"
    /\ sink = "files"
    /\ sink_pos <= Len(customer_data)
    /\ \E line \in AddressLines, fails \in BOOLEAN :
         LET name == customer_data[sink_pos][1]
             outcome == PassOutcome(email_addresses, name, line, fails)
         IN /\ delivery_log' = NoteDelivery(delivery_log, name, outcome)
            /\ answers' = NoteAnswer(answers, email_addresses, name, line)
            /\ IF outcome = "failed"
               THEN /\ pc' = "done"
                    /\ raised' = "Exception"
                    /\ sink_pos' = sink_pos
               ELSE /\ pc' = IF sink_pos = Len(customer_data) THEN "done" ELSE "loop"
                    /\ raised' = raised
                    /\ sink_pos' = sink_pos + 1
    /\ UNCHANGED <<aggVars, sink, email_addresses>>
    /\ SinkFrame

\* _display_emails_in_terminal, lines 1217-1241: one pass of the loop; an
\* exception leaves the function and is caught by _create_emails, line 535
DisplayNext ==
    /\ pc = "loop"
    /\ sink = "terminal"
    /\ sink_pos <= Len(customer_data)
    /\ \E line \in AddressLines, fails \in BOOLEAN :
         LET name == customer_data[sink_pos][1]
             outcome == PassOutcome(email_addresses, name, line, fails)
         IN /\ delivery_log' = NoteDelivery(delivery_log, name, outcome)
            /\ answers' = NoteAnswer(answers, email_addresses, name, line)
            /\ IF outcome = "failed"
               THEN /\ pc' = "done"
                    /\ raised' = "Exception"
                    /\ sink_pos' = sink_pos
               ELSE /\ pc' = IF sink_pos = Len(customer_data) THEN "done" ELSE "loop"
                    /\ raised' = raised
                    /\ sink_pos' = sink_pos + 1
    /\ UNCHANGED <<aggVars, sink, email_addresses>>
    /\ SinkFrame

\* _save_emails_to_outlook_drafts, lines 1039-1077 and 1112-1154: one pass of
\* the loop; the try statement is inside the loop
DraftNext ==
    /\ pc = "loop"
    /\ sink \in {"drafts_win", "drafts_mac"}
    /\ sink_pos <= Len(customer_data)
    /\ \E line \in AddressLines, fails \in BOOLEAN :
         LET name == customer_data[sink_pos][1]
             outcome == PassOutcome(email_addresses, name, line, fails)
         IN /\ delivery_log' = NoteDelivery(delivery_log, name, outcome)
            /\ answers' = NoteAnswer(answers, email_addresses, name, line)
    /\ pc' = IF sink_pos = Len(customer_data) THEN "done" ELSE "loop"
    /\ sink_pos' = sink_pos + 1
    /\ UNCHANGED <<raised, aggVars, sink, email_addresses>>
    /\ SinkFrame

NextSink ==
    \/ CreateEmailsDispatch
    \/ SendNext
    \/ SaveFileNext
    \/ DisplayNext
    \/ DraftNext

SpecSink == InitSink /\ [][NextSink]_vars

----------------------------------------------------------------------------
(* Claims about the delivery sinks *)

SomeDeliveryFailed == \E i \in DOMAIN delivery_log : delivery_log[i].outcome = "failed"

EveryCustomerReached ==
    /\ Len(delivery_log) = Len(customer_data)
    /\ \A i \in DOMAIN delivery_log : delivery_log[i].customer = customer_data[i][1]

\* C8: in every delivery sink, when delivery for one customer raises an
\* error, delivery is still attempted for every later customer of
\* customer_data: a sink that is done after a failure has reached them all.
C8_FailureKeepsBatchRunning ==
    (pc = "done" /\ sink # "drafts_unsupported" /\ SomeDeliveryFailed) => EveryCustomerReached

\* the same for the two draft sinks alone
DraftFailureKeepsBatchRunning ==
    (pc = "done" /\ sink \in {"drafts_win", "drafts_mac"} /\ SomeDeliveryFailed)
        => EveryCustomerReached

----------------------------------------------------------------------------
(* Workbook Locator: _ensure_local_copy *)

S_onedrive == <<"o","n","e","d","r","i","v","e">>
S_cloudstorage == <<"c","l","o","u","d","s","t","o","r","a","g","e">>
S_icloud == <<"i","c","l","o","u","d">>
S_dropbox == <<"d","r","o","p","b","o","x">>
S_google_drive == <<"g","o","o","g","l","e"," ","d","r","i","v","e">>

\* line 387
CloudIndicators == <<S_onedrive, S_cloudstorage, S_icloud, S_dropbox, S_google_drive>>

\* line 391: "size < 1024"
SmallFileSize == 1024

S_excel_processor_ == <<"e","x","c","e","l","_","p","r","o","c","e","s","s","o","r","_">>

\* tempfile.gettempdir()
TempDir == <<"/","t">>

\* Path(path).expanduser().resolve(): a relative path is taken from the
\* current directory
Resolve(path, cwd) ==
    IF path # <<>> /\ Head(path) = "/" THEN path ELSE cwd \o <<"/">> \o path

\* p.name: what follows the last "/"
RECURSIVE PathName(_)
PathName(p) ==
    IF \E i \in DOMAIN p : p[i] = "/" THEN PathName(Tail(p)) ELSE p

\* lines 388-389
IsCloud(p) == \E i \in DOMAIN CloudIndicators : Contains(CloudIndicators[i], Lower(p))

\* lines 392-393
TmpPath(p) == TempDir \o <<"/">> \o S_excel_processor_ \o PathName(p)

\* what the body of the try statement comes to: a return value, an exception,
\* or its end being reached
LocalCopyTryCloudOnly(path, cwd, exists, size, copyOk) ==
    LET p == Resolve(path, cwd)
    IN IF ~exists THEN [kind |-> "return", value |-> p]
       ELSE IF size = 0 THEN [kind |-> "raise", value |-> <<>>]
       ELSE IF IsCloud(p)
            THEN (IF copyOk THEN [kind |-> "return", value |-> TmpPath(p)]
                  ELSE [kind |-> "raise", value |-> <<>>])
       ELSE [kind |-> "end", value |-> <<>>]

LocalCopyTry(path, cwd, exists, size, copyOk) ==
    LET p == Resolve(path, cwd)
    IN IF ~exists THEN [kind |-> "return", value |-> p]
       ELSE IF size = 0 THEN [kind |-> "raise", value |-> <<>>]
       ELSE IF IsCloud(p) \/ size < SmallFileSize
            THEN (IF copyOk THEN [kind |-> "return", value |-> TmpPath(p)]
                  ELSE [kind |-> "raise", value |-> <<>>])
       ELSE [kind |-> "end", value |-> <<>>]

\* _ensure_local_copy: "except Exception" prints a warning, and the original
\* path is returned after it as after the end of the try statement
EnsureLocalCopy(path, cwd, exists, size, copyOk) ==
    LET body == LocalCopyTry(path, cwd, exists, size, copyOk)
    IN IF body.kind = "return"
       THEN [raised |-> "none", value |-> body.value]
       ELSE [raised |-> "none", value |-> path]

LocalPaths == { <<"/","d","/","b",".","x","l","s","x">>, <<"/","O","n","e","D","r","i","v","e","/","b",".","x","l","s","x">>, <<"b",".","x","l","s","x">>, <<"/","M","y"," ","D","r","o","p","B","o","x","/","b",".","x","l","s">> }
LocalDirs == { <<"/","h","o","m","e">>, <<"/","i","C","l","o","u","d"," ","D","r","i","v","e">> }
FileSizes == {0, 1, SmallFileSize - 1, SmallFileSize, SmallFileSize + 1}

LocalFrame ==
    UNCHANGED <<aggVars, prefVars, renderVars, addrVars, chooseVars, sinkVars, choose_line,
               runVars, lateVars, os_name, file_suffix, pyxlsb_importable, workbook_xml, strategy_pos, attempted>>

InitLocal ==
    /\ pc = "call"
    /\ result = <<>>
    /\ raised = "none"
    /\ AggIdle
    /\ PrefIdle
    /\ RenderIdle
    /\ AddrIdle
    /\ ChooseIdle
    /\ SinkIdle
    /\ choose_line = <<>>
    /\ RunIdle
    /\ LateIdle
    /\ os_name = "posix"
    /\ file_suffix = <<>>
    /\ pyxlsb_importable = FALSE
    /\ workbook_xml = <<>>
    /\ strategy_pos = 0
    /\ attempted = <<>>
    /\ file_exists \in BOOLEAN
    /\ given_path \in LocalPaths
    /\ cwd_dir \in LocalDirs
    /\ file_size \in FileSizes
    /\ copy_ok \in BOOLEAN

\* _ensure_local_copy(path)
EnsureLocalCopyStep ==
    /\ pc = "call"
    /\ LET r == EnsureLocalCopy(given_path, cwd_dir, file_exists, file_size, copy_ok)
       IN /\ result' = r.value
          /\ raised' = r.raised
    /\ pc' = "returned"
    /\ UNCHANGED <<file_exists, localVars>>
    /\ LocalFrame

NextLocal == EnsureLocalCopyStep

SpecLocal == InitLocal /\ [][NextLocal]_vars

----------------------------------------------------------------------------
(* Claims about the locator *)

\* C11: _ensure_local_copy fails with an empty-file error whenever the given
\* path exists and has size 0 bytes: it never returns a path for such a file.
C11_EmptyFileFails ==
    (pc = "returned" /\ file_exists /\ file_size = 0) => raised # "none"

ResolvedPath == Resolve(given_path, cwd_dir)

HasCloudMarker ==
    \E m \in {S_onedrive, S_cloudstorage, S_icloud, S_dropbox, S_google_drive} :
        Contains(m, Lower(ResolvedPath))

\* C17: for an existing non-empty file, _ensure_local_copy returns the path
\* of a temporary copy exactly when the path's string (the resolved path)
\* contains one of the cloud markers, case-insensitively, or the file is
\* smaller than 1024 bytes, the copy having succeeded, and otherwise returns
\* the original path; when the copy fails it returns the original path
\* without raising.
C17_CopyWhenCloudOrSmall ==
    (pc = "returned" /\ file_exists /\ file_size > 0) =>
        /\ raised = "none"
        /\ IF (HasCloudMarker \/ file_size < 1024) /\ copy_ok
           THEN result = TempDir \o <<"/">> \o S_excel_processor_ \o PathName(ResolvedPath)
           ELSE result = given_path

\* a small file outside any cloud folder, copied
C17_Witness ==
    /\ pc = "returned"
    /\ file_exists
    /\ file_size = 1023
    /\ copy_ok
    /\ ~HasCloudMarker
    /\ result # given_path

----------------------------------------------------------------------------
(* Table Reader: _read_sheet_df_robust *)

\* a DataFrame by its shape
Frame(nrows, ncols) == [kind |-> "frame", nrows |-> nrows, ncols |-> ncols]

\* the value of a call that ends without a return statement
NoneResult == [kind |-> "none", nrows |-> 0, ncols |-> 0]

\* df.empty: some axis has length 0
FrameEmpty(df) == df.nrows = 0 \/ df.ncols = 0

\* line 323
AcceptFrameNonEmpty(df) == ~FrameEmpty(df)

AcceptFrame(df) == ~FrameEmpty(df) \/ df.ncols > 0

\* what pd.read_excel may give for a sheet: an exception, or a frame of no
\* cells, of a header row alone, or of a header row and rows (a frame read
\* from a sheet has columns whenever it has rows)
EngineReads ==
    { [threw |-> TRUE, df |-> Frame(0, 0)],
      [threw |-> FALSE, df |-> Frame(0, 0)],
      [threw |-> FALSE, df |-> Frame(0, 2)],
      [threw |-> FALSE, df |-> Frame(2, 2)] }

\* what one pass of the manual loop, lines 342-364, may come to
ManualReads == {"load_throws", "sheet_missing", "no_rows", "frame_throws", "frame"}

\* lines 354-362: the frame a manual pass returns
ManualFrame(read) == IF read = "no_rows" THEN Frame(0, 0) ELSE Frame(1, 2)

\* the engines, lines 305-317, then the parameter sets, lines 335-339
ReadCascade(suffix, importable) == EnginesToTry(suffix, importable) \o ParamsToTry

IsEngine(strategy) == strategy \notin {ParamsToTry[i] : i \in DOMAIN ParamsToTry}

ReadFrame ==
    UNCHANGED <<aggVars, prefVars, renderVars, addrVars, chooseVars, sinkVars, extraVars,
               file_exists, os_name, workbook_xml>>

InitRead ==
    /\ pc = "try"
    /\ result = <<>>
    /\ raised = "none"
    /\ AggIdle
    /\ PrefIdle
    /\ RenderIdle
    /\ AddrIdle
    /\ ChooseIdle
    /\ SinkIdle
    /\ ExtraIdle
    /\ file_exists = TRUE
    /\ os_name \in {"nt", "posix"}
    /\ workbook_xml = <<>>
    /\ file_suffix \in Suffixes
    /\ pyxlsb_importable \in BOOLEAN
    /\ strategy_pos = 1
    /\ attempted = <<>>

\* lines 319-328: one engine is tried
ReadWithEngine ==
    /\ pc = "try"
    /\ strategy_pos <= Len(EnginesToTry(file_suffix, pyxlsb_importable))
    /\ LET engine == EnginesToTry(file_suffix, pyxlsb_importable)[strategy_pos]
       IN \E read \in EngineReads :
            /\ attempted' = Append(attempted, [strategy |-> engine, outcome |-> read])
            /\ IF ~read.threw /\ AcceptFrame(read.df)
               THEN /\ result' = read.df
                    /\ pc' = "returned"
                    /\ strategy_pos' = strategy_pos
               ELSE /\ result' = result
                    /\ pc' = pc
                    /\ strategy_pos' = strategy_pos + 1
    /\ UNCHANGED <<raised, file_suffix, pyxlsb_importable>>
    /\ ReadFrame

\* lines 341-364: one parameter set of the manual reading is tried
ReadManually ==
    /\ pc = "try"
    /\ strategy_pos > Len(EnginesToTry(file_suffix, pyxlsb_importable))
    /\ strategy_pos <= Len(ReadCascade(file_suffix, pyxlsb_importable))
    /\ LET params == ReadCascade(file_suffix, pyxlsb_importable)[strategy_pos]
       IN \E read \in ManualReads :
            /\ attempted' = Append(attempted, [strategy |-> params, outcome |-> read])
            /\ IF read \in {"no_rows", "frame"}
               THEN /\ result' = ManualFrame(read)
                    /\ pc' = "returned"
                    /\ strategy_pos' = strategy_pos
               ELSE /\ result' = result
                    /\ pc' = pc
                    /\ strategy_pos' = strategy_pos + 1
    /\ UNCHANGED <<raised, file_suffix, pyxlsb_importable>>
    /\ ReadFrame

\* lines 364-368: the loop is over, no exception has reached the outer try
\* statement, and the function ends without a return statement
ReadFallsOffEnd ==
    /\ pc = "try"
    /\ strategy_pos > Len(ReadCascade(file_suffix, pyxlsb_importable))
    /\ result' = NoneResult
    /\ pc' = "returned"
    /\ UNCHANGED <<raised, file_suffix, pyxlsb_importable, strategy_pos, attempted>>
    /\ ReadFrame

NextRead ==
    \/ ReadWithEngine
    \/ ReadManually
    \/ ReadFallsOffEnd

SpecRead == InitRead /\ [][NextRead]_vars

----------------------------------------------------------------------------
(* Claims about the table reader *)

EngineFailed(i) == attempted[i].outcome.threw \/ ~AcceptFrame(attempted[i].outcome.df)

ManualFailed(i) == attempted[i].outcome \in {"load_throws", "sheet_missing", "frame_throws"}

EveryReadFailed ==
    /\ Len(attempted) = Len(ReadCascade(file_suffix, pyxlsb_importable))
    /\ \A i \in DOMAIN attempted :
         IF IsEngine(attempted[i].strategy) THEN EngineFailed(i) ELSE ManualFailed(i)

\* C12: when every pandas engine and every openpyxl parameter set of the
\* manual fallback has failed for a sheet, _read_sheet_df_robust raises to its
\* caller: it never returns normally without a table.
C12_RaisesWhenAllFail ==
    (pc # "try" /\ EveryReadFailed) => (raised # "none" /\ pc = "raised")

\* C20: an engine's result is accepted and returned exactly when it has at
\* least one row or at least one column (a header-only sheet is accepted); a
\* result with no rows and no columns is rejected and the cascade moves on to
\* the next engine and, after the last engine, to the manual fallback.
C20_AcceptRowsOrColumns ==
    \A i \in DOMAIN attempted :
        (IsEngine(attempted[i].strategy) /\ ~attempted[i].outcome.threw) =>
            LET df == attempted[i].outcome.df
            IN IF df.nrows >= 1 \/ df.ncols >= 1
               THEN /\ i = Len(attempted)
                    /\ pc = "returned"
                    /\ result = df
               ELSE /\ i = Len(attempted) => (pc = "try" /\ strategy_pos = i + 1)
                    /\ i < Len(attempted) =>
                         attempted[i + 1].strategy =
                             ReadCascade(file_suffix, pyxlsb_importable)[i + 1]
                    /\ i = Len(EnginesToTry(file_suffix, pyxlsb_importable))
                         /\ i < Len(attempted) => ~IsEngine(attempted[i + 1].strategy)

\* a header-only result of the second engine is returned
C20_Witness ==
    /\ pc = "returned"
    /\ Len(attempted) = 2
    /\ attempted[1].outcome = [threw |-> FALSE, df |-> Frame(0, 0)]
    /\ attempted[2].outcome = [threw |-> FALSE, df |-> Frame(0, 2)]
    /\ result = Frame(0, 2)

----------------------------------------------------------------------------
(* Column Selector on its own: one call of _choose_column *)

S_Gone == <<"G","o","n","e">>

\* the stores a call may find: nothing saved, or a value saved for the key
SelectorStores(key) ==
    { <<>> } \cup { << <<key, StrCell(v)>> >> : v \in {S_Customer, S_Email, <<>>, S_Gone} }

SelectorFrame ==
    UNCHANGED <<raised, aggVars, renderVars, addrVars, sheetVars, sinkVars, localVars,
               runVars, lateVars, cwd_prefs, last_save>>

InitSelector ==
    /\ pc = "call"
    /\ result = <<>>
    /\ raised = "none"
    /\ AggIdle
    /\ RenderIdle
    /\ AddrIdle
    /\ SheetIdle
    /\ SinkIdle
    /\ LocalIdle
    /\ RunIdle
    /\ LateIdle
    /\ cwd_prefs = AbsentFile
    /\ last_save = <<>>
    /\ choose_columns \in ColumnLists
    /\ choose_key \in PrefKeys
    /\ prefs \in SelectorStores(choose_key)
    /\ prefs_file = JsonFile(prefs)
    /\ inputs_read = 0
    /\ file_writes = 0
    /\ choose_line = <<>>

\* lines 471-482: a saved choice that applies is returned, else the list is shown
SelectorBegin ==
    /\ pc = "call"
    /\ IF SavedChoiceApplies(choose_columns, prefs, choose_key)
       THEN /\ result' = PyStr(GetPref(prefs, choose_key))
            /\ pc' = "returned"
       ELSE /\ result' = result
            /\ pc' = "prompt"
    /\ UNCHANGED <<prefVars, choose_columns, choose_key, choose_line>>
    /\ SelectorFrame

\* lines 484-500: one pass of the loop, from input() to the return statement
\* or back to input()
SelectorRead ==
    /\ pc = "prompt"
    /\ \E line \in InputLines, writeOk \in BOOLEAN :
         LET c == PromptChoice(choose_columns, line)
         IN /\ choose_line' = line
            /\ inputs_read' = inputs_read + 1
            /\ IF c.again
               THEN /\ inputs_read < MaxPrompts
                    /\ UNCHANGED <<pc, result, prefs, prefs_file, file_writes>>
               ELSE /\ prefs' = SavePrefMemory(prefs, choose_key, c.chosen)
                    /\ prefs_file' = SavePrefFile(prefs_file, prefs', writeOk)
                    /\ file_writes' = file_writes + 1
                    /\ result' = c.chosen
                    /\ pc' = "returned"
    /\ UNCHANGED <<choose_columns, choose_key>>
    /\ SelectorFrame

NextSelector ==
    \/ SelectorBegin
    \/ SelectorRead

SpecSelector == InitSelector /\ [][NextSelector]_vars

----------------------------------------------------------------------------
(* Claims about one call of the column selector *)

\* the number the last line stands for, 0 when it stands for none
LineNumber ==
    LET num == ParseInt(Strip(choose_line))
    IN IF Strip(choose_line) # <<>> /\ num.ok THEN num.n ELSE 0

LineInRange == 1 <= LineNumber /\ LineNumber <= Len(choose_columns)

\* the roles of the optional emails table
OptionalRoles == {EmailColumnKey}

\* C13 as stated: when the column role is optional, _choose_column offers an
\* extra skip index (number of columns + 1), and selecting it returns None
\* without persisting a preference; otherwise exactly one column name is
\* returned.
C13_SkipIndexReturnsNone ==
    /\ (choose_key \in OptionalRoles /\ inputs_read > 0
            /\ LineNumber = Len(choose_columns) + 1) =>
         (pc = "returned" /\ result = <<"N","o","n","e">> /\ file_writes = 0)
    /\ (pc = "returned" /\ ~(choose_key \in OptionalRoles /\ inputs_read > 0
            /\ LineNumber = Len(choose_columns) + 1)) =>
         \E i \in DOMAIN choose_columns : result = choose_columns[i]

\* C13: _choose_column has no optional role: the index number of columns + 1
\* is rejected as any out-of-range number is, nothing is returned or persisted
\* for it and the prompt is repeated; whenever the call returns, it returns
\* exactly one column name of the offered list.
C13_NoSkipIndex ==
    /\ (inputs_read > 0 /\ LineNumber = Len(choose_columns) + 1) =>
         (pc = "prompt" /\ result = <<>> /\ file_writes = 0)
    /\ pc = "returned" => \E i \in DOMAIN choose_columns : result = choose_columns[i]

\* the line "3" for a list of two columns leaves the selector prompting
C13_Witness ==
    /\ pc = "prompt"
    /\ Len(choose_columns) = 2
    /\ choose_key = EmailColumnKey
    /\ choose_line = <<"3">>
    /\ inputs_read = 1

\* C18: when no usable saved preference exists, _choose_column never returns
\* on an empty, non-numeric or out-of-range input: it prompts again; it
\* returns only on a number n with 1 <= n <= number of columns, the value
\* returned is the n-th column of the offered list, and that value is written
\* to the preference store under the role key before the return.
C18_ReturnsOnlyOnValidNumber ==
    inputs_read > 0 =>
        IF LineInRange
        THEN /\ pc = "returned"
             /\ result = choose_columns[LineNumber]
             /\ GetPref(prefs, choose_key) = StrCell(result)
             /\ file_writes = 1
             /\ prefs_file \in {JsonFile(prefs)} \cup {JsonFile(d) : d \in SelectorStores(choose_key)}
        ELSE /\ pc = "prompt"
             /\ result = <<>>
             /\ file_writes = 0

\* a rejected line, then " 2 ": the second column is returned and saved
C18_Witness ==
    /\ pc = "returned"
    /\ inputs_read = 2
    /\ choose_line = <<" ","2"," ">>
    /\ Len(choose_columns) = 2
    /\ result = S_Email
    /\ prefs_file = JsonFile(prefs)

----------------------------------------------------------------------------
(* One run of separate_data_per_customer on a freshly constructed processor *)

S_Data == <<"D","a","t","a">>
S_Emails == <<"E","M","A","I","L","S">>
S_Sheet1 == <<"S","h","e","e","t","1">>
S_Foo == <<"F","o","o">>

DataCandidates ==
    << <<"d","a","t","a">>, <<"s","h","e","e","t","1">>, <<"s","h","e","e","t"," ","1">>,
       <<"i","n","v","o","i","c","e","s">>, <<"t","r","a","n","s","a","c","t","i","o","n","s">> >>
EmailsCandidates ==
    << <<"e","m","a","i","l","s">>, <<"e","m","a","i","l">>,
       <<"c","o","n","t","a","c","t","s">>, <<"c","u","s","t","o","m","e","r","s">> >>

\* lowered[candidate] of the first candidate in lowered, or <<>> for None; a
\* later sheet replaces an earlier one of the same lowered name
AutoSelect(names, candidates) ==
    LET hits == { c \in DOMAIN candidates : \E i \in DOMAIN names : Lower(names[i]) = candidates[c] }
    IN IF hits = {} THEN <<>>
       ELSE LET c == Least(hits)
                i == CHOOSE k \in DOMAIN names :
                       /\ Lower(names[k]) = candidates[c]
                       /\ \A j \in DOMAIN names : Lower(names[j]) = candidates[c] => j <= k
            IN names[i]

\* the workbooks a run may meet, by their sheet names
RunSheetLists ==
    { <<>>, <<S_Data, S_Emails>>, <<S_Sheet1>>, <<S_Foo>>, <<S_Foo, S_Data>> }

\* the data frames a run may read
RunTables(max) ==
    { [columns |-> h, rows |-> r] :
        h \in HeaderChoices,
        r \in UNION { [1..n -> RowChoices] : n \in 0..max } }

CustomerDataFalsyNever(cd) == FALSE

\* `if not self.customer_data`
CustomerDataFalsy(cd) == cd = <<>>

\* `if len(data_sheet) == 0`
NoDataRows(sheet) == Len(sheet.rows) = 0

Diagnostics ==
    { "Error reading Excel file structure", "No sheets detected", "Error reading data sheet",
      "No data found in data sheet", "No customer data found", "Error processing data",
      "Error creating emails" }

Note(log, entry) == Append(log, entry)

RunFrame ==
    UNCHANGED <<renderVars, addrVars, chooseVars, sheetVars, localVars, choose_line,
               lateVars, email_addresses, sink_pos, delivery_log, answers>>

InitRun ==
    /\ pc = "locate"
    /\ result = <<>>
    /\ raised = "none"
    /\ AggIdle
    /\ RenderIdle
    /\ AddrIdle
    /\ ChooseIdle
    /\ SheetIdle
    /\ SinkIdle
    /\ LocalIdle
    /\ choose_line = <<>>
    /\ RunIdle
    /\ LateIdle
    /\ prefs_file \in StartFiles
    /\ prefs = LoadPrefs(prefs_file, AbsentFile)
    /\ inputs_read = 0
    /\ file_writes = 0

\* line 88: _ensure_local_copy returns a path in every case
RunLocate ==
    /\ pc = "locate"
    /\ run_log' = Note(run_log, "locator")
    /\ pc' = "resolve"
    /\ UNCHANGED <<result, raised, aggVars, prefVars, sink,
                   sheet_names, data_sheet_name, emails_sheet_name, emails_sheet>>
    /\ RunFrame

\* lines 93-135: the sheet names are listed and the two sheets are settled,
\* by name or by _choose_sheet
RunResolve ==
    /\ pc = "resolve"
    /\ \/ /\ run_log' = Note(run_log, "Error reading Excel file structure")
          /\ pc' = "done"
          /\ UNCHANGED <<sheet_names, data_sheet_name, emails_sheet_name>>
       \/ \E names \in RunSheetLists :
            /\ sheet_names' = names
            /\ IF names = <<>>
               THEN /\ run_log' = Note(run_log, "No sheets detected")
                    /\ pc' = "done"
                    /\ UNCHANGED <<data_sheet_name, emails_sheet_name>>
               ELSE /\ \E chosen \in 1..Len(names) :
                         data_sheet_name' =
                             (IF AutoSelect(names, DataCandidates) # <<>>
                              THEN AutoSelect(names, DataCandidates) ELSE names[chosen])
                    /\ \E chosen \in 1..(Len(names) + 1) :
                         emails_sheet_name' =
                             (IF AutoSelect(names, EmailsCandidates) # <<>>
                              THEN AutoSelect(names, EmailsCandidates)
                              ELSE IF chosen <= Len(names) THEN names[chosen] ELSE <<>>)
                    /\ run_log' = Note(run_log, "resolver")
                    /\ pc' = "read"
    /\ UNCHANGED <<result, raised, aggVars, prefVars, sink, emails_sheet>>
    /\ RunFrame

\* lines 138-143: the data sheet is read; a reader that raises, or returns
\* None so that len() raises, ends the run
RunReadData ==
    /\ pc = "read"
    /\ \/ /\ \E failure \in {"raises", "returns None"} :
               run_log' = Note(run_log, "Error reading data sheet")
          /\ pc' = "done"
          /\ UNCHANGED data_sheet
       \/ /\ data_sheet' \in RunTables(1)
          /\ run_log' = Note(run_log, "reader")
          /\ pc' = "read_emails"
    /\ UNCHANGED <<result, raised, customer_data, prefVars, sink,
                   sheet_names, data_sheet_name, emails_sheet_name, emails_sheet>>
    /\ RunFrame

\* lines 146-153: the emails sheet, when one is named; a reader that raises
\* leaves the empty frame, one that returns None leaves None
RunReadEmails ==
    /\ pc = "read_emails"
    /\ IF emails_sheet_name = <<>>
       THEN emails_sheet' = "empty"
       ELSE emails_sheet' \in {"empty", "none", "frame"}
    /\ pc' = "validate"
    /\ UNCHANGED <<result, raised, aggVars, prefVars, sink,
                   sheet_names, data_sheet_name, emails_sheet_name, run_log>>
    /\ RunFrame

\* lines 156-163: None has no attribute `empty`, which the outer handler
\* reports; a data sheet without rows ends the run
RunValidate ==
    /\ pc = "validate"
    /\ IF emails_sheet = "none"
       THEN /\ run_log' = Note(run_log, "Error processing data")
            /\ raised' = "AttributeError"
            /\ pc' = "done"
       ELSE IF NoDataRows(data_sheet)
       THEN /\ run_log' = Note(run_log, "No data found in data sheet")
            /\ pc' = "done"
            /\ UNCHANGED raised
       ELSE /\ pc' = "aggregate"
            /\ UNCHANGED <<run_log, raised>>
    /\ UNCHANGED <<result, aggVars, prefVars, sink,
                   sheet_names, data_sheet_name, emails_sheet_name, emails_sheet>>
    /\ RunFrame

\* lines 166-170: _process_customer_data with the column the selector
\* returns, then the test of customer_data
RunAggregate ==
    /\ pc = "aggregate"
    /\ LET columns == NormalizeColumns(data_sheet.columns)
       IN /\ data_sheet' = [data_sheet EXCEPT !.columns = columns]
          /\ \E line \in InputLines, writeOk \in BOOLEAN :
               LET saved == SavedChoiceApplies(columns, prefs, MainCustomerKey)
                   c == PromptChoice(columns, line)
                   customer_col == IF saved THEN PyStr(GetPref(prefs, MainCustomerKey))
                                   ELSE c.chosen
               IN /\ saved \/ ~c.again
                  /\ IF saved
                     THEN UNCHANGED <<prefs, prefs_file, inputs_read, file_writes>>
                     ELSE /\ inputs_read' = inputs_read + 1
                          /\ prefs' = SavePrefMemory(prefs, MainCustomerKey, c.chosen)
                          /\ prefs_file' = SavePrefFile(prefs_file, prefs', writeOk)
                          /\ file_writes' = file_writes + 1
                  /\ result' = customer_col
                  /\ GroupInto(columns, customer_col)
                  /\ IF raised' # "none"
                     THEN /\ run_log' = run_log \o <<"selector", "Error processing data">>
                          /\ pc' = "done"
                     ELSE IF CustomerDataFalsy(customer_data')
                     THEN /\ run_log' = run_log \o <<"selector", "aggregator", "No customer data found">>
                          /\ pc' = "done"
                     ELSE /\ run_log' = run_log \o <<"selector", "aggregator">>
                          /\ pc' = "emails"
    /\ UNCHANGED <<sink, sheet_names, data_sheet_name, emails_sheet_name, emails_sheet>>
    /\ RunFrame

\* lines 173, 502-538: the address book is built, the option is read and the
\* sink is called; an exception of _get_email_addresses is reported instead
RunCreateEmails ==
    /\ pc = "emails"
    /\ \/ /\ emails_sheet = "frame"
          /\ run_log' = Note(run_log, "Error creating emails")
          /\ UNCHANGED sink
       \/ \E choice \in SinkChoices, platform \in Platforms :
            /\ sink' = SinkOf(choice, platform)
            /\ run_log' = Note(run_log, "sink")
    /\ pc' = "done"
    /\ UNCHANGED <<result, raised, aggVars, prefVars,
                   sheet_names, data_sheet_name, emails_sheet_name, emails_sheet>>
    /\ RunFrame

NextRun ==
    \/ RunLocate
    \/ RunResolve
    \/ RunReadData
    \/ RunReadEmails
    \/ RunValidate
    \/ RunAggregate
    \/ RunCreateEmails

SpecRun == InitRun /\ [][NextRun]_vars

----------------------------------------------------------------------------
(* Claims about the run *)

StageNames == {"locator", "resolver", "reader", "selector", "aggregator", "sink"}

IsStage(entry) == entry \in StageNames

\* the stages of the log, without the diagnostics
StagesDone == SelectSeq(run_log, IsStage)

SinkInvoked == sink # "" \/ \E i \in DOMAIN run_log : run_log[i] = "sink"

\* C15: in separate_data_per_customer a delivery sink is invoked only after
\* the Locator, the sheet Resolver, the data-sheet Reader, the Column Selector
\* and the Aggregator have completed, in that order; when sheet discovery
\* fails or finds no sheet, the data sheet cannot be read or has no rows, or
\* aggregation produces no customers, the run ends with a diagnostic message
\* and no sink is ever invoked.
C15_SinkOnlyAfterPipeline ==
    /\ SinkInvoked =>
         /\ StagesDone = <<"locator", "resolver", "reader", "selector", "aggregator", "sink">>
         /\ sheet_names # <<>>
         /\ data_sheet.rows # <<>>
         /\ customer_data # <<>>
         /\ \A i \in DOMAIN run_log : run_log[i] \notin Diagnostics
    /\ (pc = "done" /\ (sheet_names = <<>> \/ data_sheet.rows = <<>> \/ customer_data = <<>>)) =>
         /\ ~SinkInvoked
         /\ run_log # <<>>
         /\ run_log[Len(run_log)] \in Diagnostics

\* a run that went through every stage and called the SMTP sink
C15_Witness ==
    /\ pc = "done"
    /\ sink = "smtp"
    /\ sheet_names = <<S_Foo>>
    /\ emails_sheet_name = <<>>
    /\ Len(customer_data) = 1
    /\ run_log = <<"locator", "resolver", "reader", "selector", "aggregator", "sink">>

----------------------------------------------------------------------------
(* The manual pass of _read_sheet_df_robust: from raw rows to a frame *)

S_Column_ == <<"C","o","l","u","m","n","_">>
S_Name == <<"N","a","m","e">>

\* f"Column_{i + 1}" for the 0-based i of enumerate, position being i + 1
ColumnLabel(position) == S_Column_ \o DigitsOf(position)

\* line 358
ManualHeaders(first_row) ==
    [i \in DOMAIN first_row |->
        IF first_row[i].t # "none" THEN PyStr(first_row[i]) ELSE ColumnLabel(i)]

\* lines 354-362: pd.DataFrame() for no raw rows, else headers and data[1:]
ManualTable(data) ==
    IF data = <<>> THEN [columns |-> <<>>, rows |-> <<>>]
    ELSE [columns |-> ManualHeaders(data[1]), rows |-> Tail(data)]

\* cells as openpyxl gives them with values_only=True
RawCells == { NoneCell, StrCell(<<>>), StrCell(<<" ">>), StrCell(S_Name) }

RawSheets(max) == UNION { [1..n -> [1..2 -> RawCells]] : n \in 0..max }

RawFrame ==
    UNCHANGED <<raised, aggVars, prefVars, renderVars, addrVars, chooseVars, sheetVars,
               sinkVars, extraVars>>

InitRaw ==
    /\ pc = "call"
    /\ result = <<>>
    /\ raised = "none"
    /\ AggIdle
    /\ PrefIdle
    /\ RenderIdle
    /\ AddrIdle
    /\ ChooseIdle
    /\ SheetIdle
    /\ SinkIdle
    /\ LocalIdle
    /\ choose_line = <<>>
    /\ RunIdle
    /\ raw_data \in RawSheets(MaxRawRows)
    /\ last_write = NoWrite
    /\ AgainIdle
    /\ export_text = <<>>
    /\ book_rows = <<>>
    /\ out_files = <<>>

\* lines 347-362 once the workbook is open and holds the sheet
ManualReadRaw ==
    /\ pc = "call"
    /\ result' = ManualTable(raw_data)
    /\ pc' = "returned"
    /\ RawFrame

NextRaw == ManualReadRaw

SpecRaw == InitRaw /\ [][NextRaw]_vars

----------------------------------------------------------------------------
(* Claims about the manual pass *)

HeaderCellBlank(cell) == cell.t = "none" \/ (cell.t = "str" /\ Strip(cell.s) = <<>>)

\* C21: in the manual fallback of _read_sheet_df_robust the first raw row
\* becomes the header, every header cell that is None or a blank string is
\* replaced by "Column_N" with N its 1-based position, the remaining rows
\* become the table rows, and a sheet without raw rows gives an empty table,
\* not an error.
C21_BlankHeadersLabelled ==
    pc = "returned" =>
        /\ raised = "none"
        /\ IF raw_data = <<>>
           THEN result = [columns |-> <<>>, rows |-> <<>>]
           ELSE /\ DOMAIN result.columns = DOMAIN raw_data[1]
                /\ \A i \in DOMAIN raw_data[1] :
                     result.columns[i] =
                        (IF HeaderCellBlank(raw_data[1][i]) THEN ColumnLabel(i)
                         ELSE PyStr(raw_data[1][i]))
                /\ result.rows = Tail(raw_data)

----------------------------------------------------------------------------
(* _save_pref called again and again on one processor *)

EmailsCustomerKey == "emails_customer_column"

SaveKeys == {MainCustomerKey, EmailsCustomerKey, EmailColumnKey}

\* how the with-statement of lines 74-75 may end: the dump is written, open()
\* raises and the file is as before, or the dump raises on the truncated file
WriteOutcomes == {"written", "open raises", "dump raises"}

SaveFileAfter(file, d, outcome) ==
    IF outcome = "dump raises" THEN CorruptFile
    ELSE SavePrefFile(file, d, outcome = "written")

InitSave ==
    /\ pc = "idle"
    /\ result = <<>>
    /\ raised = "none"
    /\ AggIdle
    /\ RenderIdle
    /\ AddrIdle
    /\ ChooseIdle
    /\ SheetIdle
    /\ SinkIdle
    /\ LocalIdle
    /\ choose_line = <<>>
    /\ RunIdle
    /\ raw_data = <<>>
    /\ last_write = NoWrite
    /\ AgainIdle
    /\ export_text = <<>>
    /\ book_rows = <<>>
    /\ out_files = <<>>
    /\ prefs_file \in StartFiles \cup {CorruptFile}
    /\ prefs = LoadPrefs(prefs_file, AbsentFile)
    /\ inputs_read = 0
    /\ file_writes = 0

\* lines 66-79: one call of _save_pref
SavePrefCall ==
    /\ pc = "idle"
    /\ file_writes < MaxSaves
    /\ \E key \in SaveKeys, value \in {S_Customer, S_Email}, outcome \in WriteOutcomes :
         /\ prefs' = SavePrefMemory(prefs, key, value)
         /\ prefs_file' = SaveFileAfter(prefs_file, prefs', outcome)
         /\ last_write' = [key |-> key, value |-> value, outcome |-> outcome]
    /\ file_writes' = file_writes + 1
    /\ raised' = "none"
    /\ UNCHANGED <<pc, result, inputs_read, raw_data, againVars, export_text, book_rows,
                   out_files>>
    /\ UNCHANGED <<aggVars, renderVars, addrVars, chooseVars, sheetVars, sinkVars,
                   localVars, choose_line, runVars>>

NextSave == SavePrefCall

SpecSave == InitSave /\ [][NextSave]_vars

----------------------------------------------------------------------------
(* Claims about repeated saves *)

\* C25: for any sequence of _save_pref calls on one processor, the set of keys
\* of the in-memory store never shrinks, a save of key k changes no other
\* key's value, after every save whose file write succeeds the file holds the
\* whole in-memory store, and a failed write raises nothing and still leaves
\* the in-memory value updated.
C25_SavesAccumulate ==
    [][file_writes' = file_writes + 1 =>
        /\ \A k \in SaveKeys : DictHas(prefs, k) => DictHas(prefs', k)
        /\ \A k \in SaveKeys :
             k # last_write'.key => GetPref(prefs', k) = GetPref(prefs, k)
        /\ last_write'.outcome = "written" =>
             /\ prefs_file'.state = "json"
             /\ JsonLoad(prefs_file'.body) = prefs'
        /\ raised' = "none"
        /\ GetPref(prefs', last_write'.key) = StrCell(last_write'.value)]_vars

\* a second key was saved while the file could not be opened: the store holds
\* both keys, the file the first only
C25_Witness ==
    /\ file_writes = 2
    /\ Len(prefs) = 2
    /\ last_write.outcome = "open raises"
    /\ prefs_file.state = "json"
    /\ Len(JsonLoad(prefs_file.body)) = 1

----------------------------------------------------------------------------
(* _process_customer_data run twice on one processor with the same table *)

\* the tables run twice
AgainTables == RunTables(2)

InitAgain ==
    /\ pc = "start"
    /\ result = <<>>
    /\ raised = "none"
    /\ data_sheet \in AgainTables
    /\ customer_data = <<>>
    /\ prefs_file \in StartFiles
    /\ prefs = LoadPrefs(prefs_file, AbsentFile)
    /\ inputs_read = 0
    /\ file_writes = 0
    /\ RenderIdle
    /\ AddrIdle
    /\ ChooseIdle
    /\ SheetIdle
    /\ SinkIdle
    /\ LocalIdle
    /\ choose_line = <<>>
    /\ RunIdle
    /\ raw_data = <<>>
    /\ last_write = NoWrite
    /\ AgainIdle
    /\ export_text = <<>>
    /\ book_rows = <<>>
    /\ out_files = <<>>

\* lines 431-467, with the column the selector returns; customer_data is the
\* dict __init__ made, whatever it holds
ProcessCustomerData ==
    /\ pc \in {"start", "again"}
    /\ LET \* the names the first run left are strings that strip().title() keeps
           columns == IF runs_done = 0 THEN NormalizeColumns(data_sheet.columns)
                      ELSE data_sheet.columns
       IN /\ data_sheet' = [data_sheet EXCEPT !.columns = columns]
          /\ \E line \in InputLines, writeOk \in BOOLEAN :
               LET saved == SavedChoiceApplies(columns, prefs, MainCustomerKey)
                   c == PromptChoice(columns, line)
                   customer_col == IF saved THEN PyStr(GetPref(prefs, MainCustomerKey))
                                   ELSE c.chosen
               IN /\ saved \/ ~c.again
                  /\ IF saved
                     THEN UNCHANGED <<prefs, prefs_file, inputs_read, file_writes>>
                     ELSE /\ inputs_read' = inputs_read + 1
                          /\ prefs' = SavePrefMemory(prefs, MainCustomerKey, c.chosen)
                          /\ prefs_file' = SavePrefFile(prefs_file, prefs', writeOk)
                          /\ file_writes' = file_writes + 1
                  /\ result' = customer_col
                  /\ GroupInto(columns, customer_col)
    /\ runs_done' = runs_done + 1
    /\ first_data' = IF runs_done = 0 THEN customer_data' ELSE first_data
    /\ pc' = IF runs_done = 0 THEN "again" ELSE "done"
    /\ UNCHANGED <<renderVars, addrVars, chooseVars, sheetVars, sinkVars, localVars,
                   choose_line, runVars, raw_data, last_write, export_text, book_rows,
                   out_files>>

NextAgain == ProcessCustomerData

SpecAgain == InitAgain /\ [][NextAgain]_vars

----------------------------------------------------------------------------
(* Claims about a second run *)

\* C29: aggregation is idempotent on a processor: after _process_customer_data
\* has run a second time on the same processor with the same table,
\* customer_data equals its value after the first run, no row is duplicated.
C29_SecondRunChangesNothing ==
    runs_done = 2 => customer_data = first_data

----------------------------------------------------------------------------
(* The invoice list of the spreadsheet export, beside _build_invoice_string *)

\* line 803
ExportKeywords == {S_invoice, S_inv}

\* lines 803-804: the first column of the first row whose name holds a
\* keyword, 0 for None
ExportInvCol(invs) ==
    LET candidates == { i \in DOMAIN invs[1] : NameHas(invs[1][i][1], ExportKeywords) }
    IN IF candidates = {} THEN 0 ELSE Least(candidates)

\* lines 805-811
RECURSIVE ExportInvoiceValues(_, _)
ExportInvoiceValues(invs, inv_col) ==
    IF invs = <<>> \/ inv_col = 0 THEN <<>>
    ELSE LET v == Head(invs)[inv_col][2]
             text == IF v.t = "nan" THEN <<>> ELSE Strip(PyStr(v))
         IN (IF text # <<>> THEN <<text>> ELSE <<>>)
            \o ExportInvoiceValues(Tail(invs), inv_col)

\* lines 802-817
ExportInvoiceListText(invs) ==
    InvoiceListText(ExportInvoiceValues(invs, ExportInvCol(invs)))

\* the rows of one customer: never none
ExportRowLists(max) == UNION { InvoiceRows(n) : n \in 1..max }

InitExport ==
    /\ pc = "render"
    /\ result = <<>>
    /\ raised = "none"
    /\ AggIdle
    /\ PrefIdle
    /\ AddrIdle
    /\ ChooseIdle
    /\ SheetIdle
    /\ SinkIdle
    /\ ExtraIdle
    /\ invoices \in ExportRowLists(MaxInvoiceRows)
    /\ computed = {}
    /\ total_amount = 0
    /\ customer_table = <<>>
    /\ invoice_string = <<>>

\* lines 802-817 for one customer of the loop of line 758
ExportTextStep ==
    /\ "export" \notin computed
    /\ export_text' = ExportInvoiceListText(invoices)
    /\ computed' = computed \cup {"export"}
    /\ UNCHANGED <<invoices, invoice_string, raw_data, last_write, againVars, book_rows,
                   out_files>>
    /\ UNCHANGED <<pc, result, raised, aggVars, prefVars, addrVars, chooseVars,
                   sheetVars, sinkVars, localVars, choose_line, runVars,
                   total_amount, customer_table>>

NextExport ==
    \/ InvoiceStringStep
    \/ ExportTextStep

SpecExport == InitExport /\ [][NextExport]_vars

----------------------------------------------------------------------------
(* Claims about the export's invoice list *)

\* C27: for every customer, the invoice list text the spreadsheet export puts
\* into its HTML body equals the text _build_invoice_string computes for the
\* same rows, so that all sinks show the same invoice list.
C27_ExportListEqualsInvoiceString ==
    ("invoice" \in computed /\ "export" \in computed) => export_text = invoice_string

----------------------------------------------------------------------------
(* Claims about customers without an address *)

\* the book holds no address for the customer of pass i
AddressMissing(i) == ~Truthy(DictGet(email_addresses, delivery_log[i].customer, NoneCell))

\* after pass i the sink goes on with customer i + 1, if there is one
NextCustomerFollows(i) ==
    i < Len(customer_data) =>
        \/ Len(delivery_log) > i
        \/ pc = "loop" /\ sink_pos = i + 1

\* C23: in the SMTP, file, terminal and draft sinks a customer without an
\* address book entry is asked for an address; when the answer is empty the
\* customer is skipped, no message is produced for it and the sink goes on
\* with the next customer; a missing address never raises nor ends the batch.
C23_MissingAddressSkipped ==
    /\ Len(answers) = Len(delivery_log)
    /\ \A i \in DOMAIN delivery_log :
         /\ answers[i].customer = delivery_log[i].customer
         /\ answers[i].asked <=> AddressMissing(i)
         /\ (AddressMissing(i) /\ Strip(answers[i].line) = <<>>) =>
               /\ delivery_log[i].outcome = "skipped"
               /\ NextCustomerFollows(i)
         /\ delivery_log[i].outcome = "skipped" =>
               (AddressMissing(i) /\ Strip(answers[i].line) = <<>>)
    /\ raised # "none" =>
         delivery_log[Len(delivery_log)].outcome = "failed"

\* the SMTP sink skipped its first customer on a blank answer and delivered
\* to the second
C23_Witness ==
    /\ pc = "done"
    /\ sink = "smtp"
    /\ Len(delivery_log) = 2
    /\ answers[1].asked
    /\ answers[1].line = <<" ">>
    /\ delivery_log[1].outcome = "skipped"
    /\ delivery_log[2].outcome = "delivered"

----------------------------------------------------------------------------
(* Claims about customer_data after aggregation *)

----------------------------------------------------------------------------
(* Address book: the loop of _get_email_addresses over the emails sheet *)

BookAddKeepFirst(book, name, canonical) ==
    IF DictHas(book, name) THEN book ELSE DictSet(book, name, StrCell(canonical))

\* email_addresses[customer_name] = canonical
BookAdd(book, name, canonical) == DictSet(book, name, StrCell(canonical))

\* lines 562-576, rows[1] being the customer cell and rows[2] the email cell of
\* a row
RECURSIVE GetEmailAddressesFrom(_, _)
GetEmailAddressesFrom(rows, book) ==
    IF rows = <<>> THEN book
    ELSE LET customer_name == Strip(PyStr(Head(rows)[1]))
             email_address == Strip(PyStr(Head(rows)[2]))
             addrs == ParseAddresses(email_address)
         IN IF customer_name # <<>> /\ email_address # <<>> /\ Contains(<<"@">>, email_address)
                /\ addrs # <<>>
            THEN GetEmailAddressesFrom(Tail(rows),
                     BookAdd(book, customer_name, FormatAddrsForMime(addrs)))
            ELSE GetEmailAddressesFrom(Tail(rows), book)

\* cells of the two chosen columns of the emails sheet
BookNameCells == { StrCell(<<"a">>), StrCell(<<" ","a">>), StrCell(<<"b">>), StrCell(<<>>) }
BookEmailCells ==
    { StrCell(<<"a","@","x">>), StrCell(<<" ","b","@","x",";","a","@","x",","," ">>),
      StrCell(<<"a","x",";","b">>), NaNCell, StrCell(<<>>) }

BookSheets(max) ==
    UNION { [1..n -> BookNameCells \X BookEmailCells] : n \in 0..max }

InitBook ==
    /\ pc = "start"
    /\ result = <<>>
    /\ raised = "none"
    /\ AggIdle
    /\ PrefIdle
    /\ RenderIdle
    /\ AddrIdle
    /\ ChooseIdle
    /\ SheetIdle
    /\ SinkIdle
    /\ LocalIdle
    /\ choose_line = <<>>
    /\ RunIdle
    /\ raw_data = <<>>
    /\ last_write = NoWrite
    /\ AgainIdle
    /\ export_text = <<>>
    /\ book_rows \in BookSheets(MaxBookRows)
    /\ out_files = <<>>

\* lines 542, 562-578 once both columns are chosen
GetEmailAddressesStep ==
    /\ pc = "start"
    /\ email_addresses' = GetEmailAddressesFrom(book_rows, <<>>)
    /\ pc' = "done"
    /\ UNCHANGED <<result, raised, aggVars, prefVars, renderVars, addrVars, chooseVars,
                   sheetVars, localVars, choose_line, runVars, lateVars,
                   sink, sink_pos, delivery_log, answers>>

NextBook == GetEmailAddressesStep

SpecBook == InitBook /\ [][NextBook]_vars

----------------------------------------------------------------------------
(* Claims about the address book *)

BookRowName(r) == Strip(PyStr(book_rows[r][1]))

\* the trimmed tokens with '@' of row r's email cell
BookRowTokens(r) == ParseAddresses(Strip(PyStr(book_rows[r][2])))

BookRowValid(r) == BookRowName(r) # <<>> /\ BookRowTokens(r) # <<>>

LastValidRow(name) ==
    CHOOSE r \in DOMAIN book_rows :
        /\ BookRowName(r) = name /\ BookRowValid(r)
        /\ \A q \in DOMAIN book_rows : (BookRowName(q) = name /\ BookRowValid(q)) => q <= r

\* C24: every value of the address book built by _get_email_addresses is a
\* non-empty ", "-joined list of trimmed tokens that each hold '@'; a customer
\* whose email cells give no token with '@' has no entry; and when several
\* rows name the same customer, the entry comes from the last valid one.
C24_BookHoldsLastValidRow ==
    pc = "done" =>
        /\ \A i \in DOMAIN email_addresses :
             LET name == email_addresses[i][1]
                 value == PyStr(email_addresses[i][2])
             IN /\ \E r \in DOMAIN book_rows : BookRowName(r) = name /\ BookRowValid(r)
                /\ value # <<>>
                /\ value = Join(<<",", " ">>, BookRowTokens(LastValidRow(name)))
                /\ \A t \in DOMAIN BookRowTokens(LastValidRow(name)) :
                     LET token == BookRowTokens(LastValidRow(name))[t]
                     IN token # <<>> /\ Strip(token) = token /\ Contains(<<"@">>, token)
        /\ \A r \in DOMAIN book_rows :
             BookRowValid(r) => DictHas(email_addresses, BookRowName(r))
        /\ ~HasDuplicates([i \in DOMAIN email_addresses |-> email_addresses[i][1]])

\* customer a has two valid rows: the entry is the second row's two addresses
C24_Witness ==
    /\ pc = "done"
    /\ Len(book_rows) = 2
    /\ BookRowName(1) = <<"a">>
    /\ BookRowName(2) = <<"a">>
    /\ BookRowTokens(1) = << <<"a","@","x">> >>
    /\ Len(BookRowTokens(2)) = 2
    /\ email_addresses = << << <<"a">>, StrCell(<<"b","@","x",","," ","a","@","x">>) >> >>

----------------------------------------------------------------------------
(* Claims about an emails sheet that cannot be read *)

\* C26: when the emails sheet was selected but no strategy can read it, the
\* run does not abort: it goes on with an empty address book, aggregates the
\* data sheet and reaches a sink (the data sheet having rows and customers).
C26_UnreadableEmailsSheetTolerated ==
    (pc = "done" /\ emails_sheet_name # <<>> /\ emails_sheet = "none") =>
        /\ raised = "none"
        /\ \E i \in DOMAIN run_log : run_log[i] = "aggregator"
        /\ customer_data # <<>> => SinkInvoked

----------------------------------------------------------------------------
(* File sink: the names of the files _save_emails_to_files writes *)

S__email_html == <<"_","e","m","a","i","l",".","h","t","m","l">>

\* c.isalnum() or c in (' ', '-', '_')
KeptInFileName(c) == IsUpper(c) \/ IsLower(c) \/ IsDigit(c) \/ c \in {" ", "-", "_"}

\* lines 1199-1200
CleanName(customer_name) ==
    LET kept == RStrip(SelectSeq(customer_name, KeptInFileName))
    IN [i \in DOMAIN kept |-> IF kept[i] = " " THEN "_" ELSE kept[i]]

\* line 1201, inside the output directory
FileNameOf(customer_name) == CleanName(customer_name) \o S__email_html

\* customer names as aggregation leaves them: stripped, not empty
FileCustomerNames ==
    { <<"A"," ","B">>, <<"A","_","B">>, <<"A",".","B">>, <<"A","B">>, <<"A","B",".">>,
      <<"A","-","B">>, <<"C","1">> }

\* customer_data with one row for each name of the list
FileCustomers(names) ==
    [i \in DOMAIN names |-> <<names[i], << << <<S_Customer, StrCell(names[i])>> >> >> >>]

FileNameLists(max) ==
    { names \in UNION { [1..n -> FileCustomerNames] : n \in 1..max } :
        ~HasDuplicates(names) }

InitFiles ==
    /\ pc = "loop"
    /\ result = <<>>
    /\ raised = "none"
    /\ PrefIdle
    /\ RenderIdle
    /\ AddrIdle
    /\ ChooseIdle
    /\ SheetIdle
    /\ LocalIdle
    /\ choose_line = <<>>
    /\ RunIdle
    /\ raw_data = <<>>
    /\ last_write = NoWrite
    /\ AgainIdle
    /\ export_text = <<>>
    /\ book_rows = <<>>
    /\ out_files = <<>>
    /\ data_sheet = [columns |-> <<>>, rows |-> <<>>]
    /\ \E names \in FileNameLists(MaxCustomers) :
         /\ customer_data = FileCustomers(names)
         /\ email_addresses = [i \in DOMAIN names |-> <<names[i], StrCell(S_a_at_x)>>]
    /\ sink = "files"
    /\ sink_pos = 1
    /\ delivery_log = <<>>
    /\ answers = <<>>

\* lines 1183-1204: one pass of the loop for a customer with an address; the
\* file is opened with mode 'w', which replaces a file of that name
WriteFilePass ==
    /\ pc = "loop"
    /\ sink_pos <= Len(customer_data)
    /\ LET name == customer_data[sink_pos][1]
       IN /\ out_files' = Append(out_files, [file |-> FileNameOf(name), customer |-> name])
          /\ delivery_log' = NoteDelivery(delivery_log, name, "delivered")
          /\ answers' = NoteAnswer(answers, email_addresses, name, <<>>)
    /\ sink_pos' = sink_pos + 1
    /\ pc' = IF sink_pos = Len(customer_data) THEN "done" ELSE "loop"
    /\ UNCHANGED <<result, raised, aggVars, prefVars, renderVars, addrVars, chooseVars,
                   sheetVars, localVars, choose_line, runVars, raw_data, last_write,
                   againVars, export_text, book_rows, sink, email_addresses>>

NextFiles == WriteFilePass

SpecFiles == InitFiles /\ [][NextFiles]_vars

----------------------------------------------------------------------------
(* Claims about the output files *)

\* C28: in the file sink two distinct customers of customer_data are never
\* written to the same output file: the sanitised name plus "_email.html" is
\* distinct for distinct customers, so no notice is overwritten by another
\* customer's within one run.
C28_NoFileWrittenTwice ==
    \A i, j \in DOMAIN out_files :
        out_files[i].customer # out_files[j].customer => out_files[i].file # out_files[j].file

====
